---- MODULE Spec2Model ----
(***************************************************************************)
(* Model of the analytics functions of src/app.py (AGIX fund monitor):     *)
(* calculate_returns, calculate_cumulative_returns, calculate_risk_metrics *)
(* and calculate_contribution with the contribution tab of main, the risk  *)
(* tab, calculate_specific_period_returns,                                 *)
(* plot_cumulative_returns_since_2025, plot_contribution_analysis and the  *)
(* price part of load_data and the two tables with a weight column; and of *)
(* the update pipeline of src/auto_update: the date functions of           *)
(* date_utils.py and the four tasks and the summary of data_update.main.   *)
(*                                                                         *)
(* Numbers.  A pandas/numpy float64 is modelled as an exact extended       *)
(* rational <<n, d>>: d > 0 is the fraction n/d in lowest terms,           *)
(* <<0, 0>> is NaN (a missing cell), <<1, 0>> is +inf and <<-1, 0>> is     *)
(* -inf.  Rounding error and the sign of zero are not modelled.            *)
(* A value that involves a square root (std, volatility, Sharpe) is kept   *)
(* as a coefficient and a radicand, c * sqrt(r), and no root is taken.     *)
(***************************************************************************)
EXTENDS Integers, Sequences, FiniteSets, TLC

VARIABLES prices, shares, returns, cumulative_returns, risk_metrics,
          attribution, tab3, dates, stockprice, pct_pads, raised, tab5,
          specific_returns, fig2025, fig3, weights, now, call, run,
          disk

vars == <<prices, shares, returns, cumulative_returns, risk_metrics,
          attribution, tab3, dates, stockprice, pct_pads, raised, tab5,
          specific_returns, fig2025, fig3, weights, now, call, run,
          disk>>

----------------------------------------------------------------------------
(* Bounds of the model.                                                    *)

\* largest price in a cell of the price matrix
MaxPrice == 2
\* largest number of rows of the price matrix given to the return functions
MaxRowsReturns == 2
\* largest offset that can be requested from the return functions
MaxPeriod == 2
\* largest number of rows of the price matrix given to calculate_risk_metrics
MaxRowsRisk == 3
\* largest number of rows of the price matrix given to calculate_contribution
MaxRowsContribution == 2
\* largest share count in the holdings table
MaxShares == 1
\* number of trading dates of one year that can be in the index
MaxDay == 2
\* largest number of rows given to calculate_specific_period_returns
MaxRowsSince == 2
\* largest number of rows given to plot_cumulative_returns_since_2025
MaxRowsPlot == 3
\* largest number of rows of the raw price table load_data reads
MaxRowsLoad == 3
\* largest contribution, in tenths, given to plot_contribution_analysis
MaxContribution == 1
\* largest top_n given to plot_contribution_analysis
MaxTopN == 2

\* instruments (columns) of the price matrix
Tickers == {"A", "B"}
\* instruments that can appear in the index of the holdings table
HoldingTickers == {"A", "B", "C"}

----------------------------------------------------------------------------
(* float arithmetic on extended rationals                                  *)

NaN == <<0, 0>>
PosInf == <<1, 0>>
NegInf == <<-1, 0>>
Zero == <<0, 1>>
One == <<1, 1>>

AbsInt(x) == IF x < 0 THEN -x ELSE x
SignInt(x) == IF x < 0 THEN -1 ELSE IF x > 0 THEN 1 ELSE 0

RECURSIVE GCD(_, _)
GCD(a, b) == IF b = 0 THEN a ELSE GCD(b, a % b)

\* the fraction n/d (d # 0) in lowest terms with a positive denominator
Norm(n, d) ==
    LET g == GCD(AbsInt(n), AbsInt(d))
        s == SignInt(d)
    IN  <<(s * n) \div g, (s * d) \div g>>

Num(n) == <<n, 1>>
IsNaN(v) == v = NaN
IsFinite(v) == v[2] > 0
notna(v) == ~IsNaN(v)

Neg(a) == <<-a[1], a[2]>>

Add(a, b) ==
    IF IsNaN(a) \/ IsNaN(b) THEN NaN
    ELSE IF a[2] = 0 /\ b[2] = 0 THEN (IF a = b THEN a ELSE NaN)
    ELSE IF a[2] = 0 THEN a
    ELSE IF b[2] = 0 THEN b
    ELSE Norm(a[1] * b[2] + b[1] * a[2], a[2] * b[2])

Sub(a, b) == Add(a, Neg(b))

Mul(a, b) ==
    IF IsNaN(a) \/ IsNaN(b) THEN NaN
    ELSE IF a[2] = 0 \/ b[2] = 0 THEN <<SignInt(a[1]) * SignInt(b[1]), 0>>
    ELSE Norm(a[1] * b[1], a[2] * b[2])

\* 1/b in float arithmetic: 1/0 = inf, 1/inf = 0
Recip(b) ==
    IF IsNaN(b) THEN NaN
    ELSE IF b[2] = 0 THEN Zero
    ELSE IF b[1] = 0 THEN PosInf
    ELSE Norm(b[2], b[1])

\* a / b in float arithmetic: x/0 = +-inf, 0/0 = NaN, never an exception
Div(a, b) == Mul(a, Recip(b))

\* a < b on values that are not NaN
Less(a, b) ==
    IF a[2] = 0 THEN (a = NegInf /\ b # NegInf)
    ELSE IF b[2] = 0 THEN b = PosInf
    ELSE a[1] * b[2] < b[1] * a[2]

Leq(a, b) == a = b \/ Less(a, b)

----------------------------------------------------------------------------
(* pandas Series: a function from index labels to values                   *)

EmptySeries == [i \in {} |-> NaN]
empty(s) == DOMAIN s = {}

\* element-wise binary operators: the two indexes are aligned on their
\* union, a label missing on one side gives NaN
SeriesSub(a, b) ==
    [i \in DOMAIN a \cup DOMAIN b |->
        IF i \in DOMAIN a /\ i \in DOMAIN b THEN Sub(a[i], b[i]) ELSE NaN]
SeriesMul(a, b) ==
    [i \in DOMAIN a \cup DOMAIN b |->
        IF i \in DOMAIN a /\ i \in DOMAIN b THEN Mul(a[i], b[i]) ELSE NaN]
SeriesDiv(a, b) ==
    [i \in DOMAIN a \cup DOMAIN b |->
        IF i \in DOMAIN a /\ i \in DOMAIN b THEN Div(a[i], b[i]) ELSE NaN]
SeriesDivScalar(a, x) == [i \in DOMAIN a |-> Div(a[i], x)]
SeriesMulScalar(a, x) == [i \in DOMAIN a |-> Mul(a[i], x)]

RECURSIVE SumOver_NoSkip(_, _)
\* a mutation of SumOver: missing values are not skipped
SumOver_NoSkip(s, idx) ==
    IF idx = {} THEN Zero
    ELSE LET i == CHOOSE j \in idx : TRUE
         IN  Add(s[i], SumOver_NoSkip(s, idx \ {i}))

RECURSIVE SumOver(_, _)
SumOver(s, idx) ==
    IF idx = {} THEN Zero
    ELSE LET i == CHOOSE j \in idx : TRUE
         IN  Add(IF IsNaN(s[i]) THEN Zero ELSE s[i], SumOver(s, idx \ {i}))

\* Series.sum(): missing values are skipped, the sum of nothing is 0
SeriesSum(s) == SumOver(s, DOMAIN s)

----------------------------------------------------------------------------
(* the inputs                                                              *)

\* a cell of the price matrix load_data returns: zeros have been replaced
\* by NaN, so a cell is missing or a non-zero price
PriceCells == {NaN} \cup {Num(p) : p \in 1..MaxPrice}

\* price matrices with n rows; row 1 of the sequence is prices.iloc[0]
PriceMatrices(n) == [1..n -> [Tickers -> PriceCells]]

\* a sample of the cells: missing, the lowest and the highest price
AnchorCells == {NaN, Num(1), Num(MaxPrice)}

len(df) == Len(df)
\* prices.iloc[k] raises IndexError
IndexError(df, k) == k >= len(df)
\* prices.iloc[k], defined for k < len(prices)
iloc(df, k) == df[k + 1]

\* the lists of offsets a caller can pass as periods (ascending)
RECURSIVE SetToSeq(_)
SetToSeq(S) ==
    IF S = {} THEN <<>>
    ELSE LET m == CHOOSE x \in S : \A y \in S : x <= y
         IN  <<m>> \o SetToSeq(S \ {m})
PeriodLists == {SetToSeq(S) : S \in SUBSET (1..MaxPeriod)} \ {<<>>}

\* the key f'{period}d' of the result dictionaries
Label(period) == <<period, "d">>

NoShares == [index |-> {}, cols |-> <<>>]
NotCalled == [called |-> FALSE, periods |-> <<>>, value |-> <<>>]
NoRisk ==
    [called |-> FALSE, volatility |-> <<>>, max_drawdown |-> <<>>,
     var_95 |-> <<>>, sharpe_ratio |-> <<>>]
NoAttribution ==
    [called |-> FALSE, st_error |-> FALSE, price_delta |-> EmptySeries,
     price_impact |-> EmptySeries, contribution |-> EmptySeries]
\* what the contribution tab has put on the page
NoTab == [warning |-> FALSE, chart |-> FALSE, table |-> FALSE]

\* a cell of the holdings table: a non-negative number of shares
ShareCells == {Num(n) : n \in 0..MaxShares}

\* the holdings table: an index of instruments and the column of share
\* counts, alone or as second column after a column that is not numeric
\* (a column of text is all NaN after pd.to_numeric(errors='coerce'))
HoldingsTables ==
    UNION {{[index |-> S, cols |-> <<sc>>] : sc \in [S -> ShareCells]} \cup
           {[index |-> S, cols |-> <<[i \in S |-> NaN], sc>>] :
                sc \in [S -> ShareCells]} :
              S \in SUBSET HoldingTickers}

\* a trading date <<year, k>>: the k-th trading date of the year.  The index
\* of the price matrix is drawn from one date of 2023 and MaxDay dates of
\* each of 2024 and 2025
Dates == {<<2023, 1>>} \cup {<<y, k>> : y \in {2024, 2025}, k \in 1..MaxDay}

\* date a is before date b
Before(a, b) == a[1] < b[1] \/ (a[1] = b[1] /\ a[2] < b[2])

RECURSIVE Descending(_)
\* the dates of S, the most recent first
Descending(S) ==
    IF S = {} THEN <<>>
    ELSE LET m == CHOOSE x \in S : \A y \in S : y = x \/ Before(y, x)
         IN  <<m>> \o Descending(S \ {m})

\* the index of a matrix of n rows as load_data gives it: the n most recent
\* trading dates, the most recent in row 0
AsLoaded(n) == SubSeq(Descending(Dates), 1, n)

\* what the risk tab shows before it has run
NoTab5 ==
    [shown |-> FALSE, volatility_avg |-> <<>>, max_dd |-> NaN,
     var_avg |-> NaN, sharpe_avg |-> <<>>, chart |-> <<>>]
NoSpecific == [called |-> FALSE, value |-> EmptySeries]
NoFig2025 ==
    [called |-> FALSE, selected |-> {}, start_idx |-> <<>>,
     fallback |-> FALSE, cumulative_returns |-> <<>>, traces |-> {},
     warning |-> ""]
NoFig3 ==
    [called |-> FALSE, contribution |-> <<>>, top_n |-> 0, bars |-> <<>>,
     warning |-> FALSE]

\* no table with a 'Weight(%)' column is on the page
NoWeights == [returns_table |-> <<>>, contribution_table |-> <<>>]

\* no function of date_utils has been called
NoCall ==
    [fn |-> "", date |-> 0, target_date |-> <<>>, read |-> <<>>,
     current |-> 0, steps |-> 0, returned |-> FALSE, result |-> <<>>]

\* data_update.main has not been started
NotStarted ==
    [pc |-> 0, start_time |-> 0, n |-> <<>>, results |-> <<>>,
     tables |-> <<>>, log |-> <<>>, raised |-> FALSE, summary |-> <<>>]

\* no file of the data update is on the disk
NoFiles == [csv |-> {}, truncated |-> {}, shares_complete |-> FALSE]

\* the state of the data update (auto_update) while the dashboard runs
NoUpdate ==
    /\ now = 0
    /\ call = NoCall
    /\ run = NotStarted
    /\ disk = NoFiles

\* the variables of the data update
pipeline == <<now, call, run, disk>>

\* the raw table is not read and no result of the functions added below
\* exists
Idle ==
    /\ stockprice = <<>>
    /\ raised = {}
    /\ tab5 = NoTab5
    /\ specific_returns = NoSpecific
    /\ fig2025 = NoFig2025
    /\ fig3 = NoFig3
    /\ weights = NoWeights
    /\ NoUpdate

\* the variables the return, contribution and risk functions do not touch
later ==
    <<dates, stockprice, pct_pads, raised, tab5, specific_returns, fig2025,
      fig3, weights, pipeline>>

----------------------------------------------------------------------------
(* calculate_returns / calculate_cumulative_returns                        *)

\* a mutation of HasHistory: one more row is demanded than the offset needs
HasHistory_OneRowMore(df, period) == len(df) > period + 1

\* a mutation of HasHistory: every period is computed
HasHistory_Always(df, period) == TRUE

\* the test "len(prices) > period" that decides whether a period is computed
HasHistory(df, period) == len(df) > period

\* a mutation of point_return: the base row is one row too recent
point_return_BaseOffByOne(df, period) ==
    SeriesDiv(SeriesSub(iloc(df, 0), iloc(df, period - 1)),
              iloc(df, period - 1))

\* (prices.iloc[0] - prices.iloc[period]) / prices.iloc[period]
point_return(df, period) ==
    SeriesDiv(SeriesSub(iloc(df, 0), iloc(df, period)), iloc(df, period))

\* a dictionary built from its <<key, value>> items
DictOf(items) ==
    [k \in {it[1] : it \in items} |->
        (CHOOSE it \in items : it[1] = k)[2]]

RECURSIVE ReturnsDict(_, _, _)
\* the loop "for period in periods" over periods[i..], as the set of the
\* <<key, value>> items it stores
ReturnsDict(df, periods, i) ==
    IF i > Len(periods) THEN {}
    ELSE LET period == periods[i]
             rest == ReturnsDict(df, periods, i + 1)
         IN  IF HasHistory(df, period)
             THEN {<<Label(period), point_return(df, period)>>} \cup rest
             ELSE rest

calculate_returns(df, periods) == DictOf(ReturnsDict(df, periods, 1))

RECURSIVE CumulativeDict(_, _, _)
CumulativeDict(df, periods, i) ==
    IF i > Len(periods) THEN {}
    ELSE LET period == periods[i]
             rest == CumulativeDict(df, periods, i + 1)
             start_prices == iloc(df, period)
             end_prices == iloc(df, 0)
         IN  IF HasHistory(df, period)
             THEN {<<Label(period),
                     SeriesMulScalar(
                        SeriesDiv(SeriesSub(end_prices, start_prices),
                                  start_prices), Num(100))>>} \cup rest
             ELSE rest

\* nothing in the try block raises, so the except branch is never taken
calculate_cumulative_returns(df, periods) ==
    DictOf(CumulativeDict(df, periods, 1))

InitReturns ==
    /\ prices \in UNION {PriceMatrices(n) : n \in 0..MaxRowsReturns}
    /\ shares = NoShares
    /\ returns = NotCalled
    /\ cumulative_returns = NotCalled
    /\ risk_metrics = NoRisk
    /\ attribution = NoAttribution
    /\ tab3 = NoTab
    /\ dates = AsLoaded(len(prices))
    /\ pct_pads = TRUE
    /\ Idle

CalculateReturns ==
    /\ ~returns.called
    /\ \E periods \in PeriodLists :
         returns' = [called |-> TRUE, periods |-> periods,
                     value |-> calculate_returns(prices, periods)]
    /\ UNCHANGED <<prices, shares, cumulative_returns, risk_metrics,
                   attribution, tab3>>
    /\ UNCHANGED later

CalculateCumulativeReturns ==
    /\ ~cumulative_returns.called
    /\ \E periods \in PeriodLists :
         cumulative_returns' =
            [called |-> TRUE, periods |-> periods,
             value |-> calculate_cumulative_returns(prices, periods)]
    /\ UNCHANGED <<prices, shares, returns, risk_metrics, attribution, tab3>>
    /\ UNCHANGED later

NextReturns == CalculateReturns \/ CalculateCumulativeReturns

SpecReturns == InitReturns /\ [][NextReturns]_vars

----------------------------------------------------------------------------
(* calculate_contribution and the contribution tab of main                 *)

\* a mutation of shares_column: always the first column
shares_column_First(sh) == sh.cols[1]

\* the column used as the number of shares: the second one when the table
\* has more than one column, otherwise the only one
shares_column(sh) ==
    IF Len(sh.cols) > 1 THEN sh.cols[2] ELSE sh.cols[1]

\* a mutation of total_prior_value: the value at the latest row
total_prior_value_Latest(df, shares_col) ==
    SeriesSum(SeriesMul(iloc(df, 0), shares_col))

\* yesterday_value = prices.iloc[1] * shares_col; total_value = its sum
total_prior_value(df, shares_col) ==
    SeriesSum(SeriesMul(iloc(df, 1), shares_col))

\* a mutation of contribution_failed: zeros in place of empty series
contribution_failed_Zeros(df) ==
    [called |-> TRUE, st_error |-> TRUE,
     price_delta |-> [i \in Tickers |-> Zero],
     price_impact |-> [i \in Tickers |-> Zero],
     contribution |-> [i \in Tickers |-> Zero]]

\* the except branch: st.error and three empty Series
contribution_failed(df) ==
    [called |-> TRUE, st_error |-> TRUE, price_delta |-> EmptySeries,
     price_impact |-> EmptySeries, contribution |-> EmptySeries]

calculate_contribution(df, sh) ==
    IF len(df) < 2
    THEN \* prices.iloc[0] or prices.iloc[1] raises IndexError
         contribution_failed(df)
    ELSE LET price_diff == SeriesSub(iloc(df, 0), iloc(df, 1))
             price_delta == SeriesDiv(price_diff, iloc(df, 1))
             shares_col == shares_column(sh)
             price_impact == SeriesMul(price_diff, shares_col)
             total_value == total_prior_value(df, shares_col)
             contribution == SeriesDivScalar(price_impact, total_value)
         IN  [called |-> TRUE, st_error |-> FALSE,
              price_delta |-> price_delta,
              price_impact |-> price_impact,
              contribution |-> contribution]

\* a mutation of weight_returns_table: the first column of the holdings
\* table is taken whatever the number of columns
weight_returns_table_FirstColumn(df, sh) ==
    LET shares_col == sh.cols[1]
        yesterday_value == SeriesMul(iloc(df, 1), shares_col)
        total_value == SeriesSum(yesterday_value)
    IN  SeriesMulScalar(SeriesDivScalar(yesterday_value, total_value),
                        Num(100))

\* the 'Weight(%)' column of the table of cumulative returns
weight_returns_table(df, sh) ==
    LET shares_col == IF Len(sh.cols) > 1 THEN sh.cols[2] ELSE sh.cols[1]
        yesterday_value == SeriesMul(iloc(df, 1), shares_col)
        total_value == SeriesSum(yesterday_value)
    IN  SeriesMulScalar(SeriesDivScalar(yesterday_value, total_value),
                        Num(100))

\* the 'Weight(%)' column of the contribution table
weight_contribution_table(df, sh) ==
    LET shares_col == IF Len(sh.cols) > 1 THEN sh.cols[2] ELSE sh.cols[1]
        yesterday_value == SeriesMul(iloc(df, 1), shares_col)
        total_value == SeriesSum(yesterday_value)
    IN  SeriesMulScalar(SeriesDivScalar(yesterday_value, total_value),
                        Num(100))

\* "if not price_delta.empty:" the gainers and losers, the chart and the
\* table are rendered, "else:" the warning that nothing can be computed
render_tab3(res) ==
    IF ~empty(res.price_delta)
    THEN [warning |-> FALSE, chart |-> TRUE, table |-> TRUE]
    ELSE [warning |-> TRUE, chart |-> FALSE, table |-> FALSE]

\* the matrices of this part: calculate_contribution and the weights read
\* rows 0 and 1, which take every price; the rows below them take the
\* sample of the cells
ContributionMatrices(n) ==
    IF n <= 2 THEN PriceMatrices(n)
    ELSE {head \o tail : head \in PriceMatrices(2),
                         tail \in [1..(n - 2) -> [Tickers -> AnchorCells]]}

InitContribution ==
    /\ prices \in UNION {ContributionMatrices(n) :
                             n \in 0..MaxRowsContribution}
    /\ shares \in HoldingsTables
    /\ returns = NotCalled
    /\ cumulative_returns = NotCalled
    /\ risk_metrics = NoRisk
    /\ attribution = NoAttribution
    /\ tab3 = NoTab
    /\ dates = AsLoaded(len(prices))
    /\ pct_pads = TRUE
    /\ Idle

\* the contribution tab: the call and what is rendered from its result;
\* the weights read filled_pri.iloc[1], a row the matrix has whenever
\* price_delta is not empty
ContributionTab ==
    /\ ~attribution.called
    /\ attribution' = calculate_contribution(prices, shares)
    /\ tab3' = render_tab3(attribution')
    /\ weights' = IF tab3'.table /\ ~IndexError(prices, 1)
                  THEN [weights EXCEPT !.contribution_table =
                            weight_contribution_table(prices, shares)]
                  ELSE weights
    /\ UNCHANGED <<prices, shares, returns, cumulative_returns, risk_metrics>>
    /\ UNCHANGED <<dates, stockprice, pct_pads, raised, tab5,
                   specific_returns, fig2025, fig3, pipeline>>

NextContribution == ContributionTab

SpecContribution == InitContribution /\ [][NextContribution]_vars

----------------------------------------------------------------------------
(* calculate_risk_metrics                                                  *)

\* A value c * sqrt(r) is kept as [coef |-> c, rad |-> r] with r >= 0, so
\* that no square root is taken: std is 1 * sqrt(variance).
Surd(c, r) == [coef |-> c, rad |-> r]

\* c * sqrt(r) times sqrt(k)
SurdScale(s, k) == Surd(s.coef, Mul(s.rad, k))
\* the float v divided by c * sqrt(r): (v / c) * sqrt(1 / r)
DivBySurd(v, s) == Surd(Div(v, s.coef), Recip(s.rad))

\* the class of a value: NaN, 0, 1, -1, +inf or -inf
Unit(v) == IF IsFinite(v) THEN Num(SignInt(v[1])) ELSE v
\* the class of c * sqrt(r) in float arithmetic (0 * inf = NaN)
SurdUnit(s) == Mul(Unit(s.coef), Unit(s.rad))

\* DataFrame.ffill(): a missing cell takes the nearest value above it
ffill(df) ==
    [r \in 1..Len(df) |->
        [i \in Tickers |->
            LET known == {q \in 1..r : notna(df[q][i])}
            IN  IF known = {} THEN NaN
                ELSE df[CHOOSE q \in known : \A q2 \in known : q2 <= q][i]]]

\* prices.pct_change(): row 0 is NaN, row r is p[r] / p[r-1] - 1.  Up to
\* pandas 2.x the default fill_method pads missing prices first, from
\* pandas 3 on it does not: pad says which.
pct_change(df, pad) ==
    LET data == IF pad THEN ffill(df) ELSE df
    IN  [r \in 1..Len(df) |->
            [i \in Tickers |->
                IF r = 1 THEN NaN
                ELSE Sub(Div(data[r][i], data[r - 1][i]), One)]]

RECURSIVE KeepRows(_, _)
\* the rows r.. of df that have no missing value, in order
KeepRows(df, r) ==
    IF r > Len(df) THEN <<>>
    ELSE IF \A i \in Tickers : notna(df[r][i])
         THEN <<df[r]>> \o KeepRows(df, r + 1)
         ELSE KeepRows(df, r + 1)

\* a mutation of dropna: only the rows with no value at all are dropped, as
\* dropna(how='all') would
dropna_HowAll(df) ==
    SelectSeq(df, LAMBDA row : \E i \in Tickers : notna(row[i]))

\* DataFrame.dropna(): rows with a missing value in any column are dropped
dropna(df) == KeepRows(df, 1)

\* a column of a frame as a sequence of values
Column(df, i) == [r \in 1..Len(df) |-> df[r][i]]

RECURSIVE SeqSum(_, _)
SeqSum(x, n) == IF n = 0 THEN Zero ELSE Add(SeqSum(x, n - 1), x[n])

\* Series.mean(): NaN for an empty series
mean(x) == IF Len(x) = 0 THEN NaN ELSE Div(SeqSum(x, Len(x)), Num(Len(x)))

\* the sample variance (ddof = 1): NaN with fewer than 2 values
variance(x) ==
    IF Len(x) < 2 THEN NaN
    ELSE LET m == mean(x)
             sq == [r \in 1..Len(x) |-> Mul(Sub(x[r], m), Sub(x[r], m))]
         IN  Div(SeqSum(sq, Len(x)), Num(Len(x) - 1))

\* Series.std()
std(x) == Surd(One, variance(x))

RECURSIVE cumprod(_, _)
\* (1 + daily_returns).cumprod() at row t
cumprod(x, t) ==
    IF t = 1 THEN Add(One, x[1])
    ELSE Mul(cumprod(x, t - 1), Add(One, x[t]))

MaxVal(a, b) == IF Less(a, b) THEN b ELSE a
MinVal(a, b) == IF Less(b, a) THEN b ELSE a

RECURSIVE MaxUpTo(_, _)
MaxUpTo(x, n) ==
    IF n = 1 THEN cumprod(x, 1) ELSE MaxVal(MaxUpTo(x, n - 1), cumprod(x, n))

\* a mutation of rolling_max: the maximum of the whole series, as
\* cumulative_returns.max() would give, at every row
rolling_max_Global(x, t) == MaxUpTo(x, Len(x))

\* a mutation of rolling_max: the growth factor 1 of the first row of the
\* prices counts as a peak
rolling_max_FromFirstRow(x, t) == MaxVal(One, MaxUpTo(x, t))

RECURSIVE rolling_max(_, _)
\* cumulative_returns.expanding().max() at row t
rolling_max(x, t) ==
    IF t = 1 THEN cumprod(x, 1)
    ELSE MaxVal(rolling_max(x, t - 1), cumprod(x, t))

\* (cumulative_returns - rolling_max) / rolling_max at row t
drawdown(x, t) ==
    Div(Sub(cumprod(x, t), rolling_max(x, t)), rolling_max(x, t))

RECURSIVE MinDrawdown(_, _)
MinDrawdown(x, t) ==
    IF t = 1 THEN drawdown(x, 1)
    ELSE MinVal(MinDrawdown(x, t - 1), drawdown(x, t))

\* drawdown.min(): NaN when no row is left
max_drawdown(x) == IF Len(x) = 0 THEN NaN ELSE MinDrawdown(x, Len(x))

RECURSIVE Insert(_, _)
Insert(v, sorted) ==
    IF sorted = <<>> THEN <<v>>
    ELSE IF Leq(v, Head(sorted)) THEN <<v>> \o sorted
         ELSE <<Head(sorted)>> \o Insert(v, Tail(sorted))

RECURSIVE sort_values(_, _)
\* the first n values of x in ascending order
sort_values(x, n) == IF n = 0 THEN <<>> ELSE Insert(x[n], sort_values(x, n - 1))

\* Series.quantile(q) with q = qn / qd, linear interpolation between the
\* two order statistics around position (n - 1) * q; NaN when empty
quantile(x, qn, qd) ==
    IF Len(x) = 0 THEN NaN
    ELSE LET sorted == sort_values(x, Len(x))
             pos == (Len(x) - 1) * qn
             lo == pos \div qd
             rem == pos % qd
         IN  IF rem = 0 THEN sorted[lo + 1]
             ELSE Add(sorted[lo + 1],
                      Mul(Sub(sorted[lo + 2], sorted[lo + 1]),
                          Norm(rem, qd)))

\* the daily risk-free rate 0.02 / 252
DailyRiskFree == <<1, 12600>>

\* excess_returns.mean() / daily_returns.std() * np.sqrt(252); a zero std
\* gives +-inf, or NaN for 0/0
sharpe_ratio(x) ==
    LET excess_returns == [r \in 1..Len(x) |-> Sub(x[r], DailyRiskFree)]
    IN  SurdScale(DivBySurd(mean(excess_returns), std(x)), Num(252))

calculate_risk_metrics(df, pad) ==
    LET daily_returns == dropna(pct_change(df, pad))
    IN  [called |-> TRUE,
         volatility |->
            [i \in Tickers |->
                SurdScale(std(Column(daily_returns, i)), Num(252))],
         max_drawdown |->
            [i \in Tickers |-> max_drawdown(Column(daily_returns, i))],
         var_95 |->
            [i \in Tickers |-> quantile(Column(daily_returns, i), 1, 20)],
         sharpe_ratio |->
            [i \in Tickers |-> sharpe_ratio(Column(daily_returns, i))]]

InitRisk ==
    /\ prices \in UNION {PriceMatrices(n) : n \in 0..MaxRowsRisk}
    /\ shares = NoShares
    /\ returns = NotCalled
    /\ cumulative_returns = NotCalled
    /\ risk_metrics = NoRisk
    /\ attribution = NoAttribution
    /\ tab3 = NoTab
    /\ dates = AsLoaded(len(prices))
    /\ pct_pads \in BOOLEAN
    /\ Idle

CalculateRiskMetrics ==
    /\ ~risk_metrics.called
    /\ risk_metrics' = calculate_risk_metrics(prices, pct_pads)
    /\ UNCHANGED <<prices, shares, returns, cumulative_returns, attribution,
                   tab3>>
    /\ UNCHANGED later

NextRisk == CalculateRiskMetrics

SpecRisk == InitRisk /\ [][NextRisk]_vars

\* the labels of a Series whose value is not missing
Present(s) == {i \in DOMAIN s : notna(s[i])}

\* a mutation of SeriesMean: the sum is not divided by the count
SeriesMean_Sum(s) ==
    IF Present(s) = {} THEN NaN ELSE SumOver(s, Present(s))

\* Series.mean() over the instruments: missing values are skipped, the mean
\* of nothing is NaN
SeriesMean(s) ==
    IF Present(s) = {} THEN NaN
    ELSE Div(SumOver(s, Present(s)), Num(Cardinality(Present(s))))

RECURSIVE MinOver(_, _)
MinOver(s, idx) ==
    LET i == CHOOSE j \in idx : TRUE
    IN  IF idx = {i} THEN s[i] ELSE MinVal(s[i], MinOver(s, idx \ {i}))

\* Series.min() over the instruments: missing values are skipped
SeriesMin(s) == IF Present(s) = {} THEN NaN ELSE MinOver(s, Present(s))

\* the instruments whose value c * sqrt(r) is not NaN
SurdPresent(s) == {i \in DOMAIN s : notna(SurdUnit(s[i]))}

\* Series.mean() of values c_i * sqrt(r_i): the sum over the instruments
\* present of (c_i / n) * sqrt(r_i), kept as its terms; no term stands for
\* NaN
SurdMean(s) ==
    [i \in SurdPresent(s) |->
        Surd(Div(s[i].coef, Num(Cardinality(SurdPresent(s)))), s[i].rad)]

\* the column the drawdown chart of the risk tab is drawn from,
\* drawdown.iloc[:, 0]
FirstColumn == "A"

\* the four numbers and the drawdown chart of the risk tab
render_tab5(rm, df, pad) ==
    LET x == Column(dropna(pct_change(df, pad)), FirstColumn)
    IN  [shown |-> TRUE,
         volatility_avg |-> SurdMean(rm.volatility),
         max_dd |-> SeriesMin(rm.max_drawdown),
         var_avg |-> SeriesMean(rm.var_95),
         sharpe_avg |-> SurdMean(rm.sharpe_ratio),
         chart |-> [t \in 1..Len(x) |-> Mul(drawdown(x, t), Num(100))]]

\* the risk tab of main
RiskTab ==
    /\ ~tab5.shown
    /\ ~risk_metrics.called
    /\ risk_metrics' = calculate_risk_metrics(prices, pct_pads)
    /\ tab5' = render_tab5(risk_metrics', prices, pct_pads)
    /\ UNCHANGED <<weights, pipeline>>
    /\ UNCHANGED <<prices, shares, returns, cumulative_returns, attribution,
                   tab3, dates, stockprice, pct_pads, raised,
                   specific_returns, fig2025, fig3>>

\* the price matrices the risk tab is checked on
InitRiskTab ==
    /\ InitRisk
    /\ \A r \in 1..len(prices) : \A i \in Tickers : prices[r][i] \in AnchorCells

NextRiskTab == RiskTab

SpecRiskTab == InitRiskTab /\ [][NextRiskTab]_vars

\* calculate_risk_metrics on the price matrices of InitRiskTab
SpecRiskCells == InitRiskTab /\ [][NextRisk]_vars

\* the return tab and the risk tab on one price matrix
NextReturnsRisk == CalculateReturns \/ CalculateRiskMetrics

SpecReturnsRisk == InitRisk /\ [][NextReturnsRisk]_vars

----------------------------------------------------------------------------
(* calculate_specific_period_returns and                                   *)
(* plot_cumulative_returns_since_2025: returns since a calendar anchor.    *)
(* The price matrix is the sequence prices with its index in dates.        *)

\* pd.Timestamp('<y>-01-01'): no trading date of year y is before it and
\* every date of an earlier year is
Timestamp(y) == <<y, 1>>

\* the indexes of n distinct dates, in any row order
Indexes(n) ==
    {idx \in [1..n -> Dates] : \A q, r \in 1..n : idx[q] = idx[r] => q = r}

\* the indexes of n consecutive trading dates, the most recent in row 0
LoadedIndexes(n) ==
    {SubSeq(Descending(Dates), k, k + n - 1) :
        k \in 1..(Cardinality(Dates) - n + 1)}

\* a mutation of sort_index: the rows stay in the order given
sort_index_None(idx) == [k \in 1..Len(idx) |-> k]

\* prices.sort_index(): the row numbers in ascending order of their dates
sort_index(idx) ==
    [k \in 1..Len(idx) |->
        CHOOSE r \in 1..Len(idx) :
            Cardinality({q \in 1..Len(idx) : Before(idx[q], idx[r])}) = k - 1]

None == <<>>

\* the loop over prices.index.sort_values(): the earliest date that is not
\* before the anchor, None when there is none
first_on_or_after(idx, anchor) ==
    LET S == {idx[r] : r \in {q \in 1..Len(idx) : ~Before(idx[q], anchor)}}
    IN  IF S = {} THEN None
        ELSE CHOOSE x \in S : \A y \in S : y = x \/ Before(x, y)

\* prices.loc[start:] on the sorted matrix: the rows from the one labelled
\* start to the last one
loc_from(idx, start) ==
    LET order == sort_index(idx)
        p == CHOOSE k \in 1..Len(order) : idx[order[k]] = start
    IN  SubSeq(order, p, Len(order))

\* a mutation of valid_base: a missing base price passes
valid_base_NonZero(v) == v # Zero

\* the test on a base price before it is divided by
valid_base(v) == notna(v) /\ v # Zero

\* (current_price - base_price) / base_price * 100
since_return(current, base) == Mul(Div(Sub(current, base), base), Num(100))

\* the key f'{ticker}_since<y>'
SinceKey(i, y) == <<i, "_since", y>>

\* the rows since the anchor of year y when there are more than one, else
\* no row
since_rows(idx, y) ==
    LET start == first_on_or_after(idx, Timestamp(y))
        rows == IF start = None THEN <<>> ELSE loc_from(idx, start)
    IN  IF Len(rows) > 1 THEN rows ELSE <<>>

\* the entries made from the rows since one anchor: one for every
\* instrument whose base price passes the test
since_entries(df, rows, y) ==
    IF rows = <<>> THEN {}
    ELSE {<<SinceKey(i, y),
            since_return(df[rows[Len(rows)]][i], df[rows[1]][i])>> :
             i \in {j \in Tickers : valid_base(df[rows[1]][j])}}

calculate_specific_period_returns(df, idx) ==
    LET entries == since_entries(df, since_rows(idx, 2024), 2024) \cup
                   since_entries(df, since_rows(idx, 2025), 2025)
    IN  [key \in {e[1] : e \in entries} |->
            (CHOOSE e \in entries : e[1] = key)[2]]

InitSince ==
    /\ \E n \in 0..MaxRowsSince :
          /\ dates \in Indexes(n)
          /\ prices \in [1..n -> [Tickers -> AnchorCells]]
    /\ shares = NoShares
    /\ returns = NotCalled
    /\ cumulative_returns = NotCalled
    /\ risk_metrics = NoRisk
    /\ attribution = NoAttribution
    /\ tab3 = NoTab
    /\ pct_pads = TRUE
    /\ Idle

CalculateSpecificPeriodReturns ==
    /\ ~specific_returns.called
    /\ specific_returns' =
          [called |-> TRUE,
           value |-> calculate_specific_period_returns(prices, dates)]
    /\ UNCHANGED <<weights, pipeline>>
    /\ UNCHANGED <<prices, shares, returns, cumulative_returns, risk_metrics,
                   attribution, tab3, dates, stockprice, pct_pads, raised,
                   tab5, fig2025, fig3>>

NextSince == CalculateSpecificPeriodReturns

SpecSince == InitSince /\ [][NextSince]_vars

\* the 30 of available_dates[-30], the length of the fallback window of
\* plot_cumulative_returns_since_2025, scaled to the matrices of the model
FallbackWindow == 2

\* a mutation of plot_start: the fallback is always the earliest date
plot_start_Earliest(idx) ==
    LET start == first_on_or_after(idx, Timestamp(2025))
    IN  IF start # None THEN start ELSE idx[sort_index(idx)[1]]

\* start_idx of plot_cumulative_returns_since_2025 on a matrix with rows:
\* the first date on or after 2025-01-01 and, when there is none, the
\* FallbackWindow-th date from the latest or the earliest date
plot_start(idx) ==
    LET start == first_on_or_after(idx, Timestamp(2025))
        order == sort_index(idx)
    IN  IF start # None THEN start
        ELSE IF Len(idx) >= FallbackWindow
             THEN idx[order[Len(idx) - FallbackWindow + 1]]
             ELSE idx[order[1]]

\* an empty go.Figure() returned after the warning w
EmptyFigure(selected, start, fb, w) ==
    [called |-> TRUE, selected |-> selected, start_idx |-> start,
     fallback |-> fb, cumulative_returns |-> <<>>, traces |-> {},
     warning |-> w]

\* the number of values of a sequence that are not missing
CountValid(x) == Cardinality({t \in 1..Len(x) : notna(x[t])})

\* selected is the set of selected tickers, empty for None or an empty
\* list (the first 10 columns are then taken, here all of them)
plot_cumulative_returns_since_2025(df, idx, selected) ==
    IF Len(df) = 0 THEN EmptyFigure(selected, None, FALSE, "no data")
    ELSE
      LET start == plot_start(idx)
          fb == first_on_or_after(idx, Timestamp(2025)) = None
          rows == loc_from(idx, start)
          available == (IF selected = {} THEN Tickers ELSE selected)
                          \cap Tickers
          base == df[rows[1]]
          cr == [i \in {j \in available : valid_base(base[j])} |->
                    [t \in 1..Len(rows) |->
                        since_return(df[rows[t]][i], base[i])]]
      IN  IF Len(rows) < 2
          THEN EmptyFigure(selected, start, fb, "data insufficient")
          ELSE IF available = {}
               THEN EmptyFigure(selected, start, fb, "no ticker")
          ELSE IF DOMAIN cr = {}
               THEN EmptyFigure(selected, start, fb, "not computable")
          ELSE [called |-> TRUE, selected |-> selected, start_idx |-> start,
                fallback |-> fb,
                cumulative_returns |-> cr,
                traces |-> {i \in DOMAIN cr : CountValid(cr[i]) > 1},
                warning |-> ""]

InitPlot ==
    /\ \E n \in 0..MaxRowsPlot :
          /\ dates \in LoadedIndexes(n)
          /\ prices \in [1..n -> [Tickers -> AnchorCells]]
    /\ shares = NoShares
    /\ returns = NotCalled
    /\ cumulative_returns = NotCalled
    /\ risk_metrics = NoRisk
    /\ attribution = NoAttribution
    /\ tab3 = NoTab
    /\ pct_pads = TRUE
    /\ Idle

PlotCumulativeReturnsSince2025 ==
    /\ ~fig2025.called
    /\ \E selected \in SUBSET Tickers :
          fig2025' = plot_cumulative_returns_since_2025(prices, dates,
                                                        selected)
    /\ UNCHANGED <<weights, pipeline>>
    /\ UNCHANGED <<prices, shares, returns, cumulative_returns, risk_metrics,
                   attribution, tab3, dates, stockprice, pct_pads, raised,
                   tab5, specific_returns, fig3>>

\* the two since-anchor computations of the return tab on one price matrix
NextAnchor == CalculateSpecificPeriodReturns \/ PlotCumulativeReturnsSince2025

SpecAnchor == InitPlot /\ [][NextAnchor]_vars

----------------------------------------------------------------------------
(* plot_contribution_analysis.  The contribution Series keeps the order of *)
(* its entries: a sequence of <<label, value>> with distinct labels.       *)

\* the contribution Series a caller can pass: up to three holdings in any
\* order, each missing or a number of tenths
ContributionSeries ==
    UNION {{[k \in 1..n |-> <<lab[k], val[k]>>] :
               lab \in {l \in [1..n -> HoldingTickers] :
                           \A q, r \in 1..n : l[q] = l[r] => q = r},
               val \in [1..n -> {NaN} \cup {Norm(c, 10) :
                           c \in (-MaxContribution)..MaxContribution}]} :
              n \in 0..Cardinality(HoldingTickers)}

\* Series.abs() of one value
abs(v) == <<AbsInt(v[1]), v[2]>>

\* the positions of s in the order of s.abs().sort_values(ascending=False)
\* restricted to the values present; of two equal values the earlier comes
\* first when keep_first, the later otherwise
Ranked(s, keep_first) ==
    LET valued == {p \in 1..Len(s) : notna(s[p][2])}
        rank(p) == Cardinality({q \in valued :
                        \/ Less(abs(s[p][2]), abs(s[q][2]))
                        \/ abs(s[q][2]) = abs(s[p][2])
                           /\ IF keep_first THEN q < p ELSE q > p})
    IN  [k \in 1..Cardinality(valued) |->
            CHOOSE p \in valued : rank(p) = k - 1]

\* a mutation of nlargest: of equal values the last one comes first
nlargest_KeepLast(s, n, keep_nan) ==
    LET ranked == Ranked(s, FALSE)
        missing == SelectSeq([p \in 1..Len(s) |-> p],
                             LAMBDA p : IsNaN(s[p][2]))
        all == IF keep_nan THEN ranked \o missing ELSE ranked
    IN  SubSeq(all, 1, IF n < Len(all) THEN n ELSE Len(all))

\* the positions chosen by s.abs().nlargest(n) (keep='first'), in their
\* order: the n largest values present, equal values in their original
\* order; the missing values follow while there is room when keep_nan, the
\* behaviour of the pandas versions that do not drop them
nlargest(s, n, keep_nan) ==
    LET ranked == Ranked(s, TRUE)
        missing == SelectSeq([p \in 1..Len(s) |-> p],
                             LAMBDA p : IsNaN(s[p][2]))
        all == IF keep_nan THEN ranked \o missing ELSE ranked
    IN  SubSeq(all, 1, IF n < Len(all) THEN n ELSE Len(all))

\* the bars of the chart: label, signed value * 100 and colour
plot_contribution_analysis(s, top_n, keep_nan) ==
    IF Len(s) = 0
    THEN [called |-> TRUE, contribution |-> s, top_n |-> top_n,
          bars |-> <<>>, warning |-> TRUE]
    ELSE LET top == nlargest(s, top_n, keep_nan)
         IN  [called |-> TRUE, contribution |-> s, top_n |-> top_n,
              bars |-> [k \in 1..Len(top) |->
                          [x |-> s[top[k]][1],
                           y |-> Mul(s[top[k]][2], Num(100)),
                           color |-> IF notna(s[top[k]][2]) /\
                                         Less(s[top[k]][2], Zero)
                                     THEN "red" ELSE "green"]],
              warning |-> FALSE]

InitTopN ==
    /\ prices = <<>>
    /\ shares = NoShares
    /\ returns = NotCalled
    /\ cumulative_returns = NotCalled
    /\ risk_metrics = NoRisk
    /\ attribution = NoAttribution
    /\ tab3 = NoTab
    /\ dates = <<>>
    /\ pct_pads = TRUE
    /\ stockprice = <<>>
    /\ raised = {}
    /\ tab5 = NoTab5
    /\ specific_returns = NoSpecific
    /\ fig2025 = NoFig2025
    /\ \E s \in ContributionSeries : fig3 = [NoFig3 EXCEPT !.contribution = s]
    /\ weights = NoWeights
    /\ NoUpdate

PlotContributionAnalysis ==
    /\ ~fig3.called
    /\ \E top_n \in 1..MaxTopN : \E keep_nan \in BOOLEAN :
          fig3' = plot_contribution_analysis(fig3.contribution, top_n,
                                             keep_nan)
    /\ UNCHANGED <<weights, pipeline>>
    /\ UNCHANGED <<prices, shares, returns, cumulative_returns, risk_metrics,
                   attribution, tab3, dates, stockprice, pct_pads, raised,
                   tab5, specific_returns, fig2025>>

NextTopN == PlotContributionAnalysis

SpecTopN == InitTopN /\ [][NextTopN]_vars

----------------------------------------------------------------------------
(* load_data: the price table read from the workbook and its gap fill      *)

\* a cell of the raw table that holds text and not a number (the column is
\* then of dtype object)
Text == <<0, -1>>

\* the cells of the raw table: empty, zero, the lowest and the highest
\* price, or text
RawCells == {NaN, Zero, Num(1), Num(MaxPrice), Text}

\* DataFrame.bfill(): a missing cell takes the nearest cell below it that
\* is not missing, whatever that cell holds
bfill(df) ==
    [r \in 1..Len(df) |->
        [i \in Tickers |->
            LET known == {q \in r..Len(df) : notna(df[q][i])}
            IN  IF known = {} THEN NaN
                ELSE df[CHOOSE q \in known : \A q2 \in known : q <= q2][i]]]

\* pd.to_numeric(errors='coerce') on a cell: text that is no number
\* becomes NaN
to_numeric(v) == IF v = Text THEN NaN ELSE v

\* the price part of load_data: zeros are replaced by NaN, the gaps are
\* filled from the rows below and only then are the columns of dtype
\* object made numeric
load_prices(raw) ==
    LET replaced == [r \in 1..Len(raw) |->
                        [i \in Tickers |->
                            IF raw[r][i] = Zero THEN NaN ELSE raw[r][i]]]
        filled_pri == bfill(replaced)
    IN  [r \in 1..Len(raw) |->
            [i \in Tickers |-> to_numeric(filled_pri[r][i])]]

InitLoad ==
    /\ \E n \in 1..MaxRowsLoad :
          /\ stockprice \in [1..n -> [Tickers -> RawCells]]
          /\ dates = AsLoaded(n)
    /\ prices = <<>>
    /\ shares = NoShares
    /\ returns = NotCalled
    /\ cumulative_returns = NotCalled
    /\ risk_metrics = NoRisk
    /\ attribution = NoAttribution
    /\ tab3 = NoTab
    /\ pct_pads = TRUE
    /\ raised = {}
    /\ tab5 = NoTab5
    /\ specific_returns = NoSpecific
    /\ fig2025 = NoFig2025
    /\ fig3 = NoFig3
    /\ weights = NoWeights
    /\ NoUpdate

LoadData ==
    /\ prices = <<>>
    /\ prices' = load_prices(stockprice)
    /\ UNCHANGED <<weights, pipeline>>
    /\ UNCHANGED <<shares, returns, cumulative_returns, risk_metrics,
                   attribution, tab3, dates, stockprice, pct_pads, raised,
                   tab5, specific_returns, fig2025, fig3>>

NextLoad == LoadData

SpecLoad == InitLoad /\ [][NextLoad]_vars

----------------------------------------------------------------------------
(* The five analytics functions called, any number of times and in any     *)
(* order, on one price matrix and one holdings table.                      *)

\* the offsets the callers of this part pass as periods
MainPeriods == <<1, MaxPeriod>>

\* the holdings tables of this part: every instrument held, one or two
\* columns
CoreShares ==
    {[index |-> Tickers, cols |-> <<[i \in Tickers |-> Num(MaxShares)]>>],
     [index |-> Tickers,
      cols |-> <<[i \in Tickers |-> NaN],
                 [i \in Tickers |-> Num(MaxShares)]>>]}

\* a row is read that the matrix does not have: the exception leaves
\* calculate_returns, which has no handler, and is caught in
\* calculate_cumulative_returns
OutOfBounds(df, periods) ==
    \E k \in 1..Len(periods) :
        HasHistory(df, periods[k]) /\ IndexError(df, periods[k])

InitCore ==
    /\ \E n \in 0..MaxRowsReturns :
          /\ prices \in [1..n -> [Tickers -> AnchorCells]]
          /\ dates = AsLoaded(n)
    /\ shares \in CoreShares
    /\ returns = NotCalled
    /\ cumulative_returns = NotCalled
    /\ risk_metrics = NoRisk
    /\ attribution = NoAttribution
    /\ tab3 = NoTab
    /\ pct_pads \in BOOLEAN
    /\ Idle

CallReturns ==
    /\ IF OutOfBounds(prices, MainPeriods)
       THEN /\ raised' = raised \cup {"calculate_returns"}
            /\ UNCHANGED returns
       ELSE /\ returns' = [called |-> TRUE, periods |-> MainPeriods,
                           value |-> calculate_returns(prices, MainPeriods)]
            /\ UNCHANGED raised
    /\ UNCHANGED <<weights, pipeline>>
    /\ UNCHANGED <<prices, shares, cumulative_returns, risk_metrics,
                   attribution, tab3, dates, stockprice, pct_pads, tab5,
                   specific_returns, fig2025, fig3>>

CallCumulativeReturns ==
    /\ cumulative_returns' =
          [called |-> TRUE, periods |-> MainPeriods,
           value |-> IF OutOfBounds(prices, MainPeriods) THEN <<>>
                     ELSE calculate_cumulative_returns(prices, MainPeriods)]
    /\ UNCHANGED <<weights, pipeline>>
    /\ UNCHANGED <<prices, shares, returns, risk_metrics, attribution, tab3,
                   dates, stockprice, pct_pads, raised, tab5,
                   specific_returns, fig2025, fig3>>

\* a mutation of CallSpecificPeriodReturns: the matrix of the caller is
\* sorted in place, as prices.sort_index(inplace=True) would do
CallSpecificPeriodReturns_InPlace ==
    /\ specific_returns' =
          [called |-> TRUE,
           value |-> calculate_specific_period_returns(prices, dates)]
    /\ prices' = [k \in 1..Len(prices) |-> prices[sort_index(dates)[k]]]
    /\ dates' = [k \in 1..Len(dates) |-> dates[sort_index(dates)[k]]]
    /\ UNCHANGED <<weights, pipeline>>
    /\ UNCHANGED <<shares, returns, cumulative_returns, risk_metrics,
                   attribution, tab3, stockprice, pct_pads, raised, tab5,
                   fig2025, fig3>>

\* prices.sort_index() and .copy() make new frames: the matrix of the
\* caller stays as it is
CallSpecificPeriodReturns ==
    /\ specific_returns' =
          [called |-> TRUE,
           value |-> calculate_specific_period_returns(prices, dates)]
    /\ UNCHANGED <<weights, pipeline>>
    /\ UNCHANGED <<prices, shares, returns, cumulative_returns, risk_metrics,
                   attribution, tab3, dates, stockprice, pct_pads, raised,
                   tab5, fig2025, fig3>>

CallContribution ==
    /\ attribution' = calculate_contribution(prices, shares)
    /\ UNCHANGED <<weights, pipeline>>
    /\ UNCHANGED <<prices, shares, returns, cumulative_returns, risk_metrics,
                   tab3, dates, stockprice, pct_pads, raised, tab5,
                   specific_returns, fig2025, fig3>>

CallRiskMetrics ==
    /\ risk_metrics' = calculate_risk_metrics(prices, pct_pads)
    /\ UNCHANGED <<weights, pipeline>>
    /\ UNCHANGED <<prices, shares, returns, cumulative_returns, attribution,
                   tab3, dates, stockprice, pct_pads, raised, tab5,
                   specific_returns, fig2025, fig3>>

NextCore ==
    \/ CallReturns
    \/ CallCumulativeReturns
    \/ CallSpecificPeriodReturns
    \/ CallContribution
    \/ CallRiskMetrics

SpecCore == InitCore /\ [][NextCore]_vars

----------------------------------------------------------------------------
(* auto_update/date_utils.py.  A date is a number of days, 0 being Monday  *)
(* 2024-11-25.  An instant of the US-Eastern clock is a number t: its date *)
(* is t \div 3 and its time of day, as hhmm, is midnight, 16:00 or 16:01.  *)

\* the last date the clock shows when a function is entered
MaxDate == 40
\* the most instants that pass between two reads of the clock
MaxElapsed == 1

\* 2024-12-01, the first date the clock shows in the model
FirstDate == 6

\* datetime.strptime('16:00', '%H:%M').time(), as hhmm
MarketClose == 1600

\* the times of day of the model: midnight, the close and past the close
Times == <<0, MarketClose, MarketClose + 1>>

\* us_eastern_time.date() and us_eastern_time.time() of the instant t
DateOf(t) == t \div Len(Times)
TimeOf(t) == Times[(t % Len(Times)) + 1]

\* the instants of a date
InstantsOf(date) ==
    (date * Len(Times))..((date + 1) * Len(Times) - 1)

\* date.weekday(): 0 is Monday, 6 is Sunday
weekday(date) == (date + 28) % 7

\* the first days of the months around the dates of the model: 2024-11-01,
\* 2024-12-01, 2025-01-01, 2025-02-01, 2025-03-01
MonthStarts == {-24, 6, 37, 68, 96}

\* date.replace(day=1)
replace_day_1(date) ==
    CHOOSE m \in MonthStarts :
        /\ m <= date
        /\ \A k \in MonthStarts : k <= date => k <= m

\* date.strftime(format): the text of a date keeps its format
strftime(date, format) == [format |-> format, date |-> date]

\* datetime.strptime(text, format).date(): a text of another format raises
\* ValueError
strptime(text, format) ==
    IF text.format = format THEN text.date ELSE "ValueError"

\* a mutation of is_trading_day: Saturday counts as a trading day
is_trading_day_SixDays(date) == weekday(date) < 6

is_trading_day(date) == weekday(date) < 5

\* the loop of get_previous_trading_day
RECURSIVE previous_from(_)
previous_from(current) ==
    IF is_trading_day(current - 1) THEN current - 1
    ELSE previous_from(current - 1)

get_previous_trading_day(date) == previous_from(date)

\* the loop of get_next_trading_day
RECURSIVE next_from(_)
next_from(current) ==
    IF is_trading_day(current + 1) THEN current + 1
    ELSE next_from(current + 1)

get_next_trading_day(date) == next_from(date)

get_week_first_trading_day(date) ==
    LET monday == date - weekday(date)
    IN  IF is_trading_day(monday) THEN monday
        ELSE get_next_trading_day(monday)

\* a mutation of get_month_first_trading_day: the first day of the month is
\* taken as it is
get_month_first_trading_day_FirstDay(date) == replace_day_1(date)

get_month_first_trading_day(date) ==
    LET first_day == replace_day_1(date)
    IN  IF is_trading_day(first_day) THEN first_day
        ELSE get_next_trading_day(first_day)

\* get_us_market_date() when the clock is read at instant t
get_us_market_date(t) == DateOf(t)

\* a mutation of is_market_closed_for_today: closed from 16:00 sharp
is_market_closed_for_today_AtClose(t) ==
    IF weekday(DateOf(t)) >= 5 THEN TRUE ELSE TimeOf(t) >= MarketClose

\* is_market_closed_for_today() when the clock is read at instant t
is_market_closed_for_today(t) ==
    IF weekday(DateOf(t)) >= 5 THEN TRUE ELSE TimeOf(t) > MarketClose

\* calculate_dates(target_date): target_date is None or a text; the clock is
\* read at t1 for the date (when target_date is None) and at t2 for the
\* close
calculate_dates(target_date, t1, t2) ==
    LET target == IF target_date = None THEN get_us_market_date(t1)
                  ELSE strptime(target_date, "%Y-%m-%d")
        market_closed_today == is_market_closed_for_today(t2)
        n0 == IF market_closed_today THEN target
              ELSE get_previous_trading_day(target)
        n == IF ~is_trading_day(n0) THEN get_previous_trading_day(n0)
             ELSE n0
    IN  [n |-> strftime(n, "%Y/%m/%d"),
         n_minus_1 |-> strftime(get_previous_trading_day(n), "%Y/%m/%d"),
         week_first |-> strftime(get_week_first_trading_day(n), "%Y/%m/%d"),
         month_first |->
            strftime(get_month_first_trading_day(n), "%Y/%m/%d")]

\* calculate_n_and_n_minus_1(): the clock is read at t1 for the date and at
\* t2 for the close
calculate_n_and_n_minus_1(t1, t2) ==
    LET target_date == get_us_market_date(t1)
        market_closed_today == is_market_closed_for_today(t2)
        n0 == IF market_closed_today THEN target_date
              ELSE get_previous_trading_day(target_date)
        n == IF ~is_trading_day(n0) THEN get_previous_trading_day(n0)
             ELSE n0
    IN  [n |-> strftime(n, "%Y-%m-%d"),
         n_minus_1 |-> strftime(get_previous_trading_day(n), "%Y-%m-%d")]

\* get_latest_trading_day(): the clock is read at t1 for the date and at t2
\* for the close
get_latest_trading_day(t1, t2) ==
    LET target_date == get_us_market_date(t1)
        market_closed_today == is_market_closed_for_today(t2)
        n0 == IF market_closed_today THEN target_date
              ELSE get_previous_trading_day(target_date)
    IN  IF ~is_trading_day(n0) THEN get_previous_trading_day(n0) ELSE n0

\* generate_trading_dates(start_date, end_date), oldest first
RECURSIVE generate_trading_dates(_, _)
generate_trading_dates(start_date, end_date) ==
    IF start_date <= end_date
    THEN (IF is_trading_day(start_date) THEN <<start_date>> ELSE <<>>)
         \o generate_trading_dates(start_date + 1, end_date)
    ELSE <<>>

\* the dates the clock shows when a function is entered
ClockDates == FirstDate..MaxDate

\* the state the dashboard is in while the data update runs: nothing is
\* loaded and nothing is computed
NoDashboard ==
    /\ prices = <<>>
    /\ shares = NoShares
    /\ returns = NotCalled
    /\ cumulative_returns = NotCalled
    /\ risk_metrics = NoRisk
    /\ attribution = NoAttribution
    /\ tab3 = NoTab
    /\ dates = <<>>
    /\ pct_pads = TRUE
    /\ stockprice = <<>>
    /\ raised = {}
    /\ tab5 = NoTab5
    /\ specific_returns = NoSpecific
    /\ fig2025 = NoFig2025
    /\ fig3 = NoFig3
    /\ weights = NoWeights

\* the variables of the dashboard
dashboard ==
    <<prices, shares, returns, cumulative_returns, risk_metrics, attribution,
      tab3, dates, stockprice, pct_pads, raised, tab5, specific_returns,
      fig2025, fig3, weights>>

\* the three loops that look for a trading day
Loops ==
    {"get_previous_trading_day", "get_next_trading_day",
     "updatefundsvalue.get_previous_trading_day"}

\* a loop is entered with a date: current = date
InitLoop ==
    /\ NoDashboard
    /\ now = 0
    /\ run = NotStarted
    /\ disk = NoFiles
    /\ call \in {[NoCall EXCEPT !.fn = f, !.date = d, !.current = d] :
                    f \in Loops, d \in ClockDates}

\* one iteration of the loop of date_utils.get_previous_trading_day
PreviousStep ==
    /\ call.fn = "get_previous_trading_day"
    /\ ~call.returned
    /\ LET current == call.current - 1
       IN  call' = [call EXCEPT !.current = current,
                                !.steps = @ + 1,
                                !.returned = is_trading_day(current),
                                !.result = IF is_trading_day(current)
                                           THEN current ELSE <<>>]
    /\ UNCHANGED <<now, run, disk>>
    /\ UNCHANGED dashboard

\* one iteration of the loop of date_utils.get_next_trading_day
NextStep ==
    /\ call.fn = "get_next_trading_day"
    /\ ~call.returned
    /\ LET current == call.current + 1
       IN  call' = [call EXCEPT !.current = current,
                                !.steps = @ + 1,
                                !.returned = is_trading_day(current),
                                !.result = IF is_trading_day(current)
                                           THEN current ELSE <<>>]
    /\ UNCHANGED <<now, run, disk>>
    /\ UNCHANGED dashboard

\* updatefundsvalue.get_previous_trading_day: the day before start_date,
\* then one more day back while the date is no trading day
FundsValuePreviousStep ==
    /\ call.fn = "updatefundsvalue.get_previous_trading_day"
    /\ ~call.returned
    /\ LET current_date == call.current - 1
       IN  call' = [call EXCEPT !.current = current_date,
                                !.steps = @ + 1,
                                !.returned = is_trading_day(current_date),
                                !.result = IF is_trading_day(current_date)
                                           THEN current_date ELSE <<>>]
    /\ UNCHANGED <<now, run, disk>>
    /\ UNCHANGED dashboard

NextLoop == PreviousStep \/ NextStep \/ FundsValuePreviousStep

SpecLoop == InitLoop /\ [][NextLoop]_vars

\* the instants the clock shows when a function is entered
ClockInstants == UNION {InstantsOf(date) : date \in ClockDates}

\* the texts of the dates a caller passes to calculate_dates
TargetDates == {None} \cup {strftime(date, "%Y-%m-%d") : date \in ClockDates}

\* the clock shows any instant and no function of date_utils is called
InitDates ==
    /\ NoDashboard
    /\ now \in ClockInstants
    /\ call = NoCall
    /\ run = NotStarted
    /\ disk = NoFiles

\* a call of get_latest_trading_day(); the clock may advance between its
\* two reads
GetLatestTradingDay ==
    /\ call = NoCall
    /\ \E elapsed \in 0..MaxElapsed :
        /\ call' = [NoCall EXCEPT
                        !.fn = "get_latest_trading_day",
                        !.read = <<now, now + elapsed>>,
                        !.returned = TRUE,
                        !.result =
                            get_latest_trading_day(now, now + elapsed)]
        /\ now' = now + elapsed
    /\ UNCHANGED <<run, disk>>
    /\ UNCHANGED dashboard

\* a call of calculate_dates(target_date)
CalculateDates ==
    /\ call = NoCall
    /\ \E target_date \in TargetDates, elapsed \in 0..MaxElapsed :
        /\ call' = [NoCall EXCEPT
                        !.fn = "calculate_dates",
                        !.target_date = target_date,
                        !.read = <<now, now + elapsed>>,
                        !.returned = TRUE,
                        !.result =
                            calculate_dates(target_date, now, now + elapsed)]
        /\ now' = now + elapsed
    /\ UNCHANGED <<run, disk>>
    /\ UNCHANGED dashboard

NextDates == GetLatestTradingDay \/ CalculateDates

SpecDates == InitDates /\ [][NextDates]_vars

----------------------------------------------------------------------------
(* auto_update/data_update.py: main and its four tasks.  Each task reads   *)
(* the clock for itself; time passes between the tasks and between the two *)
(* reads of a task.                                                        *)

\* the most instants after the close of the start date at which main starts
MaxStart == 12

\* datetime(2024, 12, 20).date()
StartDate == 25

\* the first instant past the close of the start date
FirstRun == CHOOSE t \in InstantsOf(StartDate) : TimeOf(t) > MarketClose

\* the four tasks of main, in the order of the calls
Tasks ==
    <<"update_monitoring_data", "update_shares_data",
      "generate_funds_value_data", "generate_stock_price_data">>

\* the instants by which the clock may advance: a run lasts MaxElapsed
\* instants at most
Elapse == {e \in 0..MaxElapsed : now + e - run.start_time <= MaxElapsed}

\* what requests.get, raise_for_status and the write of the file come to
FetchOutcomes == {"saved", "request failed", "write failed"}

\* try_download(csv_name, save_path): the file is written only after a good
\* response; open(save_path, 'wb') has created the file when the write
\* fails; every exception gives False
try_download(date_obj, files, fetch) ==
    [ok |-> fetch = "saved",
     files |->
        IF fetch = "saved"
        THEN [files EXCEPT !.csv = @ \cup {date_obj}]
        ELSE IF fetch = "write failed"
        THEN [files EXCEPT !.truncated = @ \cup {date_obj}]
        ELSE files]

\* save_path.exists()
exists(date_obj, files) == date_obj \in files.csv \cup files.truncated

\* download_agix_holdings(n_date): the path of the CSV or None; the ticker
\* mapping (COMPANY_TO_TICKER_ADD is not empty) raises when the file cannot
\* be parsed
download_agix_holdings(n_date, files, fetch, mapping_ok) ==
    LET date_obj == strptime(n_date, "%Y-%m-%d")
        got == try_download(date_obj, files, fetch)
    IN  IF exists(date_obj, files)
        THEN [path |-> IF mapping_ok THEN <<date_obj>> ELSE None,
              raised |-> ~mapping_ok,
              files |-> files,
              log |-> <<"replace_tickers_in_holdings_file">>]
        ELSE IF got.ok
        THEN [path |-> IF mapping_ok THEN <<date_obj>> ELSE None,
              raised |-> ~mapping_ok,
              files |-> got.files,
              log |-> <<"try_download", "replace_tickers_in_holdings_file">>]
        ELSE [path |-> None, raised |-> FALSE, files |-> got.files,
              log |-> <<"try_download">>]

\* what update_shares_sheet_with_holdings_data comes to: True, False before
\* workbook.SaveAs, or False after it
SheetOutcomes == {"ok", "failed", "failed after save"}

\* update_shares_data() with the clock read at t1 and t2
update_shares_data(t1, t2, files, fetch, mapping_ok, sheet) ==
    LET n_dates == calculate_n_and_n_minus_1(t1, t2)
        holdings == download_agix_holdings(n_dates.n, files, fetch, mapping_ok)
    IN  IF holdings.raised
        THEN [raised |-> TRUE, result |-> FALSE, n |-> n_dates.n.date,
              files |-> holdings.files, log |-> holdings.log]
        ELSE IF holdings.path = None
        THEN [raised |-> FALSE, result |-> FALSE, n |-> n_dates.n.date,
              files |-> holdings.files, log |-> holdings.log]
        ELSE [raised |-> FALSE, result |-> sheet = "ok", n |-> n_dates.n.date,
              files |-> [holdings.files EXCEPT
                            !.shares_complete = @ \/ sheet # "failed"],
              log |-> holdings.log \o
                        <<"update_shares_sheet_with_holdings_data">>]

\* reversed(trading_dates)
RECURSIVE reversed(_)
reversed(s) == IF s = <<>> THEN <<>> ELSE reversed(Tail(s)) \o <<Head(s)>>

\* a mutation of price_table: the rows are written oldest first
price_table_Ascending(file, end_date) ==
    LET trading_dates == generate_trading_dates(StartDate, end_date)
    IN  [file |-> file,
         end_date |-> end_date,
         rows |-> [r \in 1..Len(trading_dates) |->
                        strftime(trading_dates[r], "%Y-%m-%d")]]

\* the table generate_funds_value_data and generate_stock_price_data write:
\* one row per trading date from the start date to end_date, newest first;
\* a row is its 'Date' text (the formula cells repeat it)
price_table(file, end_date) ==
    LET trading_dates == reversed(generate_trading_dates(StartDate, end_date))
    IN  [file |-> file,
         end_date |-> end_date,
         rows |-> [r \in 1..Len(trading_dates) |->
                        strftime(trading_dates[r], "%Y-%m-%d")]]

\* main is entered at any instant from the close of the start date on; the
\* holdings CSV of every date or of no date is on the disk
InitUpdate ==
    /\ NoDashboard
    /\ call = NoCall
    /\ now \in FirstRun..(FirstRun + MaxStart)
    /\ run = [NotStarted EXCEPT !.pc = 1, !.start_time = now]
    /\ disk \in {NoFiles,
                 [NoFiles EXCEPT !.csv = StartDate..(MaxDate + MaxStart)]}

\* time passes while main runs
Tick ==
    /\ run.pc \in 1..Len(Tasks)
    /\ ~run.raised
    /\ 1 \in Elapse
    /\ now' = now + 1
    /\ UNCHANGED <<call, run, disk>>
    /\ UNCHANGED dashboard

\* results.append(("每日监控数据", update_monitoring_data())): False when
\* the source workbook is missing, before any date is computed
UpdateMonitoringData ==
    /\ run.pc = 1
    /\ ~run.raised
    /\ \E source_exists \in BOOLEAN, saved \in BOOLEAN, elapsed \in Elapse :
        IF ~source_exists
        THEN /\ run' = [run EXCEPT !.pc = 2,
                            !.results = Append(@, <<Tasks[1], FALSE>>)]
             /\ now' = now
        ELSE LET calculated == calculate_dates(None, now, now + elapsed)
             IN  /\ run' = [run EXCEPT
                                !.pc = 2,
                                !.n = Append(@, <<Tasks[1],
                                                  calculated.n.date>>),
                                !.results = Append(@, <<Tasks[1], saved>>)]
                 /\ now' = now + elapsed
    /\ UNCHANGED <<call, disk>>
    /\ UNCHANGED dashboard

\* results.append(("Shares数据", update_shares_data())): an exception of
\* the ticker mapping is not caught and ends main
UpdateSharesData ==
    /\ run.pc = 2
    /\ ~run.raised
    /\ \E elapsed \in Elapse, fetch \in FetchOutcomes, mapping_ok \in BOOLEAN,
          sheet \in SheetOutcomes :
        LET done == update_shares_data(now, now + elapsed, disk, fetch,
                                       mapping_ok, sheet)
        IN  /\ run' = [run EXCEPT
                            !.pc = IF done.raised THEN @ ELSE 3,
                            !.raised = done.raised,
                            !.n = Append(@, <<Tasks[2], done.n>>),
                            !.log = done.log,
                            !.results = IF done.raised THEN @
                                        ELSE Append(@, <<Tasks[2],
                                                         done.result>>)]
            /\ disk' = done.files
            /\ now' = now + elapsed
    /\ UNCHANGED call
    /\ UNCHANGED dashboard

\* results.append(("基金价格数据", generate_funds_value_data())): an
\* exception of df.to_excel is not caught and ends main
GenerateFundsValueData ==
    /\ run.pc = 3
    /\ ~run.raised
    /\ \E elapsed \in Elapse, written \in BOOLEAN, opened \in BOOLEAN :
        LET end_date == get_latest_trading_day(now, now + elapsed)
        IN  /\ run' = [run EXCEPT
                            !.pc = IF written THEN 4 ELSE @,
                            !.raised = ~written,
                            !.n = Append(@, <<Tasks[3], end_date>>),
                            !.tables = IF written
                                       THEN Append(@, price_table(Tasks[3],
                                                                  end_date))
                                       ELSE @,
                            !.results = IF written
                                        THEN Append(@, <<Tasks[3], opened>>)
                                        ELSE @]
            /\ now' = now + elapsed
    /\ UNCHANGED <<call, disk>>
    /\ UNCHANGED dashboard

\* results.append(("股票价格数据", generate_stock_price_data()))
GenerateStockPriceData ==
    /\ run.pc = 4
    /\ ~run.raised
    /\ \E elapsed \in Elapse, written \in BOOLEAN, opened \in BOOLEAN :
        LET end_date == get_latest_trading_day(now, now + elapsed)
        IN  /\ run' = [run EXCEPT
                            !.pc = IF written THEN 5 ELSE @,
                            !.raised = ~written,
                            !.n = Append(@, <<Tasks[4], end_date>>),
                            !.tables = IF written
                                       THEN Append(@, price_table(Tasks[4],
                                                                  end_date))
                                       ELSE @,
                            !.results = IF written
                                        THEN Append(@, <<Tasks[4], opened>>)
                                        ELSE @]
            /\ now' = now + elapsed
    /\ UNCHANGED <<call, disk>>
    /\ UNCHANGED dashboard

\* the summary main prints after the four tasks
Summary ==
    /\ run.pc = 5
    /\ ~run.raised
    /\ LET success_count ==
            Cardinality({k \in 1..Len(run.results) : run.results[k][2]})
       IN  run' = [run EXCEPT
                        !.pc = 6,
                        !.summary =
                            [success_count |-> success_count,
                             total |-> Len(run.results),
                             all_succeeded |->
                                success_count = Len(run.results)]]
    /\ UNCHANGED <<now, call, disk>>
    /\ UNCHANGED dashboard

NextUpdate ==
    \/ Tick
    \/ UpdateMonitoringData
    \/ UpdateSharesData
    \/ GenerateFundsValueData
    \/ GenerateStockPriceData
    \/ Summary

SpecUpdate == InitUpdate /\ [][NextUpdate]_vars

----------------------------------------------------------------------------
(* the two tables with a 'Weight(%)' column: the table of cumulative       *)
(* returns and the table of the contribution tab                           *)

\* the holdings tables of this part: every instrument of the matrix held, a
\* holding that has no price, or one instrument held; none or MaxShares
\* shares of each; one or two columns
WeightShares ==
    UNION {UNION {{[index |-> S, cols |-> <<sc>>],
                   [index |-> S, cols |-> <<[i \in S |-> NaN], sc>>]} :
                     sc \in [S -> {Zero, Num(MaxShares)}]} :
              S \in {Tickers, HoldingTickers, {"A"}}}

InitWeights ==
    /\ \E n \in 0..MaxRowsReturns :
          /\ prices \in [1..n -> [Tickers -> AnchorCells]]
          /\ dates = AsLoaded(n)
    /\ shares \in WeightShares
    /\ returns = NotCalled
    /\ cumulative_returns = NotCalled
    /\ risk_metrics = NoRisk
    /\ attribution = NoAttribution
    /\ tab3 = NoTab
    /\ pct_pads = TRUE
    /\ Idle

\* the table of cumulative returns: the returns of the main periods, then
\* "if cumulative_returns_data:" the returns since the year starts and the
\* weights
ReturnsTable ==
    /\ ~cumulative_returns.called
    /\ cumulative_returns' =
          [called |-> TRUE, periods |-> MainPeriods,
           value |-> IF OutOfBounds(prices, MainPeriods) THEN <<>>
                     ELSE calculate_cumulative_returns(prices, MainPeriods)]
    /\ IF DOMAIN cumulative_returns'.value # {}
       THEN /\ specific_returns' =
                  [called |-> TRUE,
                   value |-> calculate_specific_period_returns(prices, dates)]
            /\ weights' = [weights EXCEPT !.returns_table =
                              weight_returns_table(prices, shares)]
       ELSE UNCHANGED <<specific_returns, weights>>
    /\ UNCHANGED <<prices, shares, returns, risk_metrics, attribution, tab3,
                   dates, stockprice, pct_pads, raised, tab5, fig2025, fig3,
                   pipeline>>

NextWeights ==
    \/ ReturnsTable
    \/ ContributionTab

SpecWeights == InitWeights /\ [][NextWeights]_vars

----------------------------------------------------------------------------
(* Properties of calculate_returns and calculate_cumulative_returns,       *)
(* checked under SpecReturns                                               *)

Range(seq) == {seq[j] : j \in DOMAIN seq}

\* C1: for every instrument i and every requested offset k with
\* len(prices) > k, the entry of calculate_returns for period 'kd' and
\* instrument i is the fraction (p[0][i] - p[k][i]) / p[k][i] (row 0 the
\* most recent row); with integer prices p0, pk the entry n/d satisfies
\* n * pk = d * (p0 - pk), and it is NaN when p0 or pk is missing.
C1_PointReturnValue ==
    returns.called =>
        \A k \in Range(returns.periods) : \A i \in Tickers :
            len(prices) > k =>
                /\ Label(k) \in DOMAIN returns.value
                /\ i \in DOMAIN returns.value[Label(k)]
                /\ LET e == returns.value[Label(k)][i]
                       p0 == prices[1][i]
                       pk == prices[k + 1][i]
                   IN  IF IsNaN(p0) \/ IsNaN(pk) THEN IsNaN(e)
                       ELSE /\ IsFinite(e)
                            /\ e[1] * pk[1] = e[2] * (p0[1] - pk[1])

\* a call with offset 1 on two rows whose entry is (1 - 2) / 2 for A and
\* (2 - 1) / 1 for B
C1_Witness ==
    /\ returns.called
    /\ len(prices) = 2
    /\ 1 \in Range(returns.periods)
    /\ prices[1] = [i \in Tickers |-> IF i = "A" THEN Num(1) ELSE Num(2)]
    /\ prices[2] = [i \in Tickers |-> IF i = "A" THEN Num(2) ELSE Num(1)]
    /\ returns.value[Label(1)]["A"] = <<-1, 2>>
    /\ returns.value[Label(1)]["B"] = One

\* C2: in the results of calculate_returns and of
\* calculate_cumulative_returns the set of period labels is exactly the set
\* of requested offsets k with len(prices) > k; an offset k >= len(prices)
\* has no entry, for every number of rows including 0.
C2_PeriodLabels ==
    /\ returns.called =>
          DOMAIN returns.value =
             {Label(k) : k \in {j \in Range(returns.periods) :
                                    len(prices) > j}}
    /\ cumulative_returns.called =>
          DOMAIN cumulative_returns.value =
             {Label(k) : k \in {j \in Range(cumulative_returns.periods) :
                                    len(prices) > j}}

\* both functions were asked for offsets 1 and 2 on a two-row matrix: the
\* results hold '1d' and nothing for '2d'
C2_Witness ==
    /\ returns.called
    /\ cumulative_returns.called
    /\ len(prices) = 2
    /\ {1, 2} \subseteq Range(returns.periods)
    /\ {1, 2} \subseteq Range(cumulative_returns.periods)
    /\ DOMAIN returns.value = {Label(1)}
    /\ DOMAIN cumulative_returns.value = {Label(1)}

\* C3 (as the specification states it): when len(prices) > k and the base price p[k][i] is
\* missing, instrument i is absent from period k's result, and no entry of
\* the result is NaN.
C3_MissingBaseOmitted ==
    returns.called =>
        \A k \in Range(returns.periods) :
            len(prices) > k =>
                \A i \in Tickers :
                    /\ IsNaN(prices[k + 1][i]) =>
                          i \notin DOMAIN returns.value[Label(k)]
                    /\ i \in DOMAIN returns.value[Label(k)] =>
                          ~IsNaN(returns.value[Label(k)][i])

----------------------------------------------------------------------------
(* Properties of calculate_contribution, checked under SpecContribution    *)

\* instruments present in both the price matrix and the holdings table
Matched == Tickers \cap shares.index

\* the number of shares of a held instrument, as an integer
ShareCount(i) ==
    (IF Len(shares.cols) > 1 THEN shares.cols[2][i] ELSE shares.cols[1][i])[1]

RECURSIVE IntSum(_, _)
IntSum(f, S) ==
    IF S = {} THEN 0
    ELSE LET i == CHOOSE j \in S : TRUE IN f[i] + IntSum(f, S \ {i})

\* sum of p[r][i] * shares[i] over the matched instruments priced in row r
TotalValue(r) ==
    LET S == {i \in Matched : notna(prices[r + 1][i])}
    IN  IntSum([i \in S |-> prices[r + 1][i][1] * ShareCount(i)], S)

\* C4: with at least 2 rows and a non-zero total prior value, for every
\* instrument i present in both inputs price_delta[i] is the fraction
\* (p[0][i]-p[1][i])/p[1][i], price_impact[i] is (p[0][i]-p[1][i])*shares[i]
\* and contribution[i] is price_impact[i] / total_prior_value, the total
\* being the sum of p[1][j]*shares[j]; a missing p[0][i] or p[1][i] makes
\* the three values of i NaN.
C4_AttributionValues ==
    (attribution.called /\ len(prices) >= 2 /\ TotalValue(1) # 0) =>
        \A i \in Matched :
            LET p0 == prices[1][i]
                p1 == prices[2][i]
                diff == p0[1] - p1[1]
                pd == attribution.price_delta[i]
                pi == attribution.price_impact[i]
                c == attribution.contribution[i]
            IN  IF IsNaN(p0) \/ IsNaN(p1)
                THEN IsNaN(pd) /\ IsNaN(pi) /\ IsNaN(c)
                ELSE /\ IsFinite(pd) /\ pd[1] * p1[1] = pd[2] * diff
                     /\ pi = Num(diff * ShareCount(i))
                     /\ IsFinite(c)
                     /\ c[1] * TotalValue(1) = c[2] * diff * ShareCount(i)

\* A: 2 -> 1 and B: 1 -> 2 with 1 share each in a two-column table: total
\* prior value 3, contribution of A is (1 - 2) * 1 / 3
C4_Witness ==
    /\ attribution.called
    /\ len(prices) = 2
    /\ Len(shares.cols) = 2
    /\ shares.index = Tickers
    /\ TotalValue(1) = 3
    /\ attribution.price_delta["A"] = <<-1, 2>>
    /\ attribution.price_impact["A"] = Num(-1)
    /\ attribution.contribution["A"] = <<-1, 3>>
    /\ attribution.contribution["B"] = <<1, 3>>

\* C5: when the holdings cover exactly the priced instruments, no price of
\* rows 0 and 1 is missing and total_value[1] is not zero, the sum of
\* contribution is the fund's one-day return
\* (total_value[0] - total_value[1]) / total_value[1].
C5_ContributionSum ==
    ( /\ attribution.called
      /\ len(prices) >= 2
      /\ shares.index = Tickers
      /\ \A i \in Tickers : notna(prices[1][i]) /\ notna(prices[2][i])
      /\ TotalValue(1) # 0 ) =>
        LET sum == SeriesSum(attribution.contribution)
        IN  /\ IsFinite(sum)
            /\ sum[1] * TotalValue(1) =
                  sum[2] * (TotalValue(0) - TotalValue(1))

\* full coverage with a fund return of (4 - 3) / 3: one instrument flat,
\* one rising
C5_Witness ==
    /\ attribution.called
    /\ len(prices) = 2
    /\ shares.index = Tickers
    /\ \A i \in Tickers : notna(prices[1][i]) /\ notna(prices[2][i])
    /\ TotalValue(0) = 4
    /\ TotalValue(1) = 3
    /\ \E i \in Tickers : attribution.contribution[i] = <<1, 3>>
    /\ SeriesSum(attribution.contribution) = <<1, 3>>

\* C6 (as the specification states it): when total_prior_value is zero the call returns three
\* empty series and the not-computable warning is shown; no contribution
\* value is made by dividing by the zero total.
C6_ZeroTotalEmpty ==
    (attribution.called /\ len(prices) >= 2 /\ TotalValue(1) = 0) =>
        /\ empty(attribution.price_delta)
        /\ empty(attribution.price_impact)
        /\ empty(attribution.contribution)
        /\ tab3.warning
        /\ ~tab3.table

\* C7: with fewer than 2 rows (0 or 1) the call returns three empty series
\* instead of raising, and the tab shows the not-computable warning and
\* neither the contribution chart nor the table.
C7_TooFewRows ==
    (attribution.called /\ len(prices) < 2) =>
        /\ empty(attribution.price_delta)
        /\ empty(attribution.price_impact)
        /\ empty(attribution.contribution)
        /\ tab3 = [warning |-> TRUE, chart |-> FALSE, table |-> FALSE]

\* the tab ran on a one-row matrix and a non-empty holdings table
C7_Witness ==
    /\ attribution.called
    /\ attribution.st_error
    /\ len(prices) = 1
    /\ shares.index = Tickers
    /\ tab3.warning

\* the inputs without the instruments that are in only one of them
RestrictPrices(df, S) == [r \in 1..Len(df) |-> [i \in S |-> df[r][i]]]
RestrictShares(sh, S) ==
    [index |-> S,
     cols |-> [c \in DOMAIN sh.cols |-> [i \in S |-> sh.cols[c][i]]]]

\* C8: an instrument that is in only one of the price matrix and the
\* holdings table does not make the call fail and has no defined
\* price_impact or contribution, and the price_impact and contribution of
\* the instruments present in both inputs are the ones the call gives when
\* the unmatched instruments are removed from the inputs.
C8_UnmatchedExcluded ==
    (attribution.called /\ len(prices) >= 2) =>
        LET alone == calculate_contribution(RestrictPrices(prices, Matched),
                                            RestrictShares(shares, Matched))
        IN  /\ ~attribution.st_error
            /\ \A i \in (Tickers \cup shares.index) \ Matched :
                  /\ IsNaN(attribution.price_impact[i])
                  /\ IsNaN(attribution.contribution[i])
            /\ \A i \in Matched :
                  /\ attribution.price_impact[i] = alone.price_impact[i]
                  /\ attribution.contribution[i] = alone.contribution[i]

\* B is priced but not held, C is held but not priced, A is in both
C8_Witness ==
    /\ attribution.called
    /\ len(prices) = 2
    /\ shares.index = {"A", "C"}
    /\ notna(prices[2]["B"])
    /\ ShareCount("C") > 0
    /\ attribution.contribution["A"] = <<-1, 2>>
    /\ IsNaN(attribution.contribution["B"])
    /\ IsNaN(attribution.contribution["C"])

----------------------------------------------------------------------------
(* Properties of calculate_risk_metrics, checked under SpecRisk and        *)
(* SpecReturnsRisk                                                         *)

\* every cell of the price matrix is a (strictly positive) price
AllPriced == \A r \in 1..Len(prices) : \A i \in Tickers : notna(prices[r][i])

\* the prices of i never fall from one row to the next, the order in which
\* pct_change and cumprod run through the rows
NonDecreasing(i) ==
    \A r \in 1..(Len(prices) - 1) : Leq(prices[r][i], prices[r + 1][i])

\* C9: for a price matrix of strictly positive prices with at least 2 rows
\* the max drawdown of every instrument is a number <= 0, and it is 0 when
\* the instrument's prices are non-decreasing in row order.
C9_DrawdownNonPositive ==
    (risk_metrics.called /\ len(prices) >= 2 /\ AllPriced) =>
        \A i \in Tickers :
            /\ IsFinite(risk_metrics.max_drawdown[i])
            /\ Leq(risk_metrics.max_drawdown[i], Zero)
            /\ NonDecreasing(i) => risk_metrics.max_drawdown[i] = Zero

\* three rows: A goes 1, 2, 1 and has drawdown -1/2, B rises 1, 1, 2 and
\* has drawdown 0
C9_Witness ==
    /\ risk_metrics.called
    /\ len(prices) = 3
    /\ AllPriced
    /\ ~NonDecreasing("A")
    /\ NonDecreasing("B")
    /\ prices[1]["B"] # prices[3]["B"]
    /\ risk_metrics.max_drawdown["A"] = <<-1, 2>>
    /\ risk_metrics.max_drawdown["B"] = Zero

\* every instrument has one price in all rows
FlatPrices ==
    /\ AllPriced
    /\ \A r \in 1..Len(prices) : prices[r] = prices[1]

\* C10 (as the specification states it): for a price matrix in which every instrument has a
\* constant price (with at least 3 rows, so that the standard deviation of
\* the daily returns is defined) calculate_returns gives 0 for every
\* computable period and calculate_risk_metrics gives volatility 0, max
\* drawdown 0, VaR 0 and a Sharpe ratio that is NaN, not the result of a
\* division by the zero standard deviation.
C10_FlatPrices ==
    (FlatPrices /\ len(prices) >= 3) =>
        /\ returns.called =>
              \A k \in DOMAIN returns.value : \A i \in Tickers :
                  returns.value[k][i] = Zero
        /\ risk_metrics.called =>
              \A i \in Tickers :
                  /\ SurdUnit(risk_metrics.volatility[i]) = Zero
                  /\ risk_metrics.max_drawdown[i] = Zero
                  /\ risk_metrics.var_95[i] = Zero
                  /\ IsNaN(SurdUnit(risk_metrics.sharpe_ratio[i]))

\* the rows of the daily returns calculate_risk_metrics works on
DailyReturns == dropna(pct_change(prices, pct_pads))

\* C11 (as the specification states it): on the matrix as loaded, where row
\* r is a more recent date than row r + 1, every daily return used by
\* calculate_risk_metrics is the forward return of some date, its price
\* minus the price of the previous date (the next row) over the latter, and
\* a non-zero max drawdown is the decline from a peak to a trough on a later
\* date, that is from a row s to a row t < s.
C11_ForwardInTime ==
    (risk_metrics.called /\ len(prices) >= 2 /\ AllPriced) =>
        \A i \in Tickers :
            /\ \A r \in 1..Len(DailyReturns) :
                  \E d \in 1..(Len(prices) - 1) :
                      DailyReturns[r][i][1] * prices[d + 1][i][1] =
                         DailyReturns[r][i][2] *
                            (prices[d][i][1] - prices[d + 1][i][1])
            /\ LET md == risk_metrics.max_drawdown[i]
               IN  md # Zero =>
                      \E s \in 1..Len(prices) : \E t \in 1..(s - 1) :
                          md[1] * prices[s][i][1] =
                             md[2] * (prices[t][i][1] - prices[s][i][1])

----------------------------------------------------------------------------
(* Properties of the risk tab of main, checked under SpecRiskTab           *)

\* the instruments with a value of the metric (not NaN)
WithValue(s) == {i \in Tickers : notna(s[i])}

\* v is the arithmetic mean of the values of s that are present: NaN when
\* there is none, else v * n is their sum
IsMeanOf(v, s) ==
    IF WithValue(s) = {} THEN IsNaN(v)
    ELSE Mul(v, Num(Cardinality(WithValue(s)))) = SumOver(s, WithValue(s))

\* m, a sum of terms c * sqrt(r), is the mean of the values of s that are
\* present: one term per instrument, n times the term being the
\* instrument's value
IsSurdMeanOf(m, s) ==
    LET S == {i \in Tickers : notna(SurdUnit(s[i]))}
    IN  /\ DOMAIN m = S
        /\ \A i \in S :
              /\ m[i].rad = s[i].rad
              /\ Mul(m[i].coef, Num(Cardinality(S))) = s[i].coef

\* C12 (as the specification states it): each of the four numbers of the
\* risk tab, the max drawdown included, is the arithmetic mean over the
\* instruments of the per-instrument value.
C12_AllFourMeans ==
    tab5.shown =>
        /\ IsSurdMeanOf(tab5.volatility_avg, risk_metrics.volatility)
        /\ IsMeanOf(tab5.max_dd, risk_metrics.max_drawdown)
        /\ IsMeanOf(tab5.var_avg, risk_metrics.var_95)
        /\ IsSurdMeanOf(tab5.sharpe_avg, risk_metrics.sharpe_ratio)

\* C12 (amended): the volatility, VaR and Sharpe numbers of the risk tab
\* are the arithmetic means over the instruments that have a value; the max
\* drawdown shown is the smallest (most negative) per-instrument max
\* drawdown, not the mean.
C12_MeansAndWorstDrawdown ==
    tab5.shown =>
        /\ IsSurdMeanOf(tab5.volatility_avg, risk_metrics.volatility)
        /\ IsMeanOf(tab5.var_avg, risk_metrics.var_95)
        /\ IsSurdMeanOf(tab5.sharpe_avg, risk_metrics.sharpe_ratio)
        /\ IF WithValue(risk_metrics.max_drawdown) = {} THEN IsNaN(tab5.max_dd)
           ELSE /\ \E i \in Tickers : tab5.max_dd = risk_metrics.max_drawdown[i]
                /\ \A i \in WithValue(risk_metrics.max_drawdown) :
                      Leq(tab5.max_dd, risk_metrics.max_drawdown[i])

\* three rows (newest first), A: 1, 2, 1 and B: 1, 1, 2: the drawdowns are
\* -1/2 and 0 and -1/2 is shown, where the mean is -1/4; the VaR shown
\* is not the VaR of either instrument
C12_Witness ==
    /\ tab5.shown
    /\ len(prices) = 3
    /\ risk_metrics.max_drawdown["A"] = <<-1, 2>>
    /\ risk_metrics.max_drawdown["B"] = Zero
    /\ tab5.max_dd = <<-1, 2>>
    /\ risk_metrics.var_95["A"] # risk_metrics.var_95["B"]
    /\ IsFinite(tab5.var_avg)
    /\ DOMAIN tab5.volatility_avg = Tickers

----------------------------------------------------------------------------
(* Properties of calculate_specific_period_returns, checked under          *)
(* SpecSince                                                               *)

\* the rows whose date is on or after the first day of year y
OnOrAfter(y) == {r \in 1..Len(dates) : ~Before(dates[r], Timestamp(y))}

\* the row of S with the earliest date, and the one with the latest
Earliest(S) == CHOOSE r \in S : \A q \in S : q = r \/ Before(dates[r], dates[q])
Latest(S) == CHOOSE r \in S : \A q \in S : q = r \/ Before(dates[q], dates[r])

\* C13: for each anchor 2024-01-01 and 2025-01-01, whatever the order of
\* the rows, an entry of instrument i for the anchor is 100 * (p[latest
\* date][i] - p[base][i]) / p[base][i] with base the earliest date of the
\* matrix that is on or after the anchor; the entry exists when that base
\* is not the latest date and p[base][i] is present.
C13_SinceAnchorValue ==
    specific_returns.called =>
        \A y \in {2024, 2025} : \A i \in Tickers :
            LET S == OnOrAfter(y)
                key == SinceKey(i, y)
            IN  IF Cardinality(S) < 2 \/ IsNaN(prices[Earliest(S)][i])
                THEN key \notin DOMAIN specific_returns.value
                ELSE /\ key \in DOMAIN specific_returns.value
                     /\ LET e == specific_returns.value[key]
                            pb == prices[Earliest(S)][i]
                            pl == prices[Latest(1..Len(dates))][i]
                        IN  IF IsNaN(pl) THEN IsNaN(e)
                            ELSE /\ IsFinite(e)
                                 /\ e[1] * pb[1] =
                                       e[2] * 100 * (pl[1] - pb[1])

\* two rows given the most recent first, 2024 day 2 then 2024 day 1, A
\* going from 2 to 1: the entry of A since 2024 is -50 and nothing is
\* computed since 2025
C13_Witness ==
    /\ specific_returns.called
    /\ dates = <<(<<2024, 2>>), (<<2024, 1>>)>>
    /\ prices[1]["A"] = Num(1)
    /\ prices[2]["A"] = Num(2)
    /\ specific_returns.value[SinceKey("A", 2024)] = Num(-50)
    /\ SinceKey("A", 2025) \notin DOMAIN specific_returns.value

----------------------------------------------------------------------------
(* Properties of the two since-anchor computations, checked under          *)
(* SpecAnchor                                                              *)

\* the row whose date is d
RowOf(d) == CHOOSE r \in 1..Len(dates) : dates[r] = d

\* e is 100 * (p - pb) / pb for a price pb that is present
IsSinceReturn(e, p, pb) ==
    IF IsNaN(p) THEN IsNaN(e)
    ELSE IsFinite(e) /\ e[1] * pb[1] = e[2] * 100 * (p[1] - pb[1])

C15_NoAnchorDateEmpty ==
    /\ specific_returns.called =>
          \A y \in {2024, 2025} : \A i \in Tickers :
              OnOrAfter(y) = {} =>
                 SinceKey(i, y) \notin DOMAIN specific_returns.value
    /\ (fig2025.called /\ OnOrAfter(2025) = {}) =>
          /\ fig2025.start_idx = None
          /\ DOMAIN fig2025.cumulative_returns = {}
          /\ fig2025.traces = {}

\* C20: in plot_cumulative_returns_since_2025, when the matrix has rows and
\* none on or after 2025-01-01, the base date is the FallbackWindow-th date
\* from the latest when there are at least FallbackWindow dates and the
\* earliest date otherwise; and whatever the base date, the chart has no
\* trace when fewer than 2 rows are on or after it.
C20_FallbackWindow ==
    fig2025.called =>
        /\ (Len(dates) > 0 /\ OnOrAfter(2025) = {}) =>
              /\ fig2025.start_idx # None
              /\ LET newer == {r \in 1..Len(dates) :
                                  Before(fig2025.start_idx, dates[r])}
                     older == {r \in 1..Len(dates) :
                                  Before(dates[r], fig2025.start_idx)}
                 IN  IF Len(dates) >= FallbackWindow
                     THEN Cardinality(newer) = FallbackWindow - 1
                     ELSE older = {}
        /\ LET since == IF fig2025.start_idx = None THEN {}
                        ELSE {r \in 1..Len(dates) :
                                 ~Before(dates[r], fig2025.start_idx)}
           IN  Cardinality(since) < 2 =>
                  /\ fig2025.traces = {}
                  /\ DOMAIN fig2025.cumulative_returns = {}

\* three rows before 2025 with A going 1, 2, 1 (newest first): the base is
\* the second date from the latest, not the earliest, and A is drawn from
\* it
C20_Witness ==
    /\ fig2025.called
    /\ fig2025.fallback
    /\ dates = <<(<<2024, 2>>), (<<2024, 1>>), (<<2023, 1>>)>>
    /\ fig2025.start_idx = <<2024, 1>>
    /\ prices[1]["A"] = Num(1)
    /\ prices[2]["A"] = Num(2)
    /\ fig2025.cumulative_returns["A"] = <<Zero, Num(-50)>>
    /\ "A" \in fig2025.traces

----------------------------------------------------------------------------
(* Properties of plot_contribution_analysis, checked under SpecTopN        *)

\* the position of a label in the contribution Series
PositionOf(x) ==
    CHOOSE p \in 1..Len(fig3.contribution) : fig3.contribution[p][1] = x

\* the absolute value of the contribution at position p, times 100
AbsAt(p) == abs(Mul(fig3.contribution[p][2], Num(100)))

\* C16: the bars of plot_contribution_analysis that have a value are the
\* top_n holdings (all of them when there are fewer) with the largest
\* absolute contribution, in descending absolute value, each with its
\* signed value times 100; of two holdings with equal absolute
\* contribution the earlier in the Series is preferred and comes first.
\* Bars of holdings without a value, if any, come last.
C16_TopNByAbsolute ==
    fig3.called =>
        LET s == fig3.contribution
            bars == fig3.bars
            valued == {p \in 1..Len(s) : notna(s[p][2])}
            shown == {k \in 1..Len(bars) : notna(bars[k].y)}
            at(k) == PositionOf(bars[k].x)
        IN  /\ Cardinality(shown) =
                  (IF fig3.top_n < Cardinality(valued) THEN fig3.top_n
                   ELSE Cardinality(valued))
            /\ \A k \in 1..Len(bars) :
                  /\ \E p \in 1..Len(s) : s[p][1] = bars[k].x
                  /\ bars[k].y = Mul(s[at(k)][2], Num(100))
                  /\ \A j \in 1..Len(bars) : bars[j].x = bars[k].x => j = k
            /\ \A k \in shown : \A j \in 1..Len(bars) :
                  j > k =>
                     \/ j \notin shown
                     \/ Less(abs(bars[j].y), abs(bars[k].y))
                     \/ abs(bars[j].y) = abs(bars[k].y) /\ at(k) < at(j)
            /\ \A k \in shown :
                  \A p \in valued \ {at(j) : j \in shown} :
                     \/ Less(AbsAt(p), abs(bars[k].y))
                     \/ AbsAt(p) = abs(bars[k].y) /\ at(k) < p

\* C: 1/10, A: -1/10, B: 1/10 with top_n = 2: C and A are shown in that
\* order, A with its negative value, and B, equal in absolute value but
\* later, is not
C16_Witness ==
    /\ fig3.called
    /\ fig3.top_n = 2
    /\ fig3.contribution =
          <<(<<"C", (<<1, 10>>)>>), (<<"A", (<<-1, 10>>)>>),
            (<<"B", (<<1, 10>>)>>)>>
    /\ Len(fig3.bars) = 2
    /\ fig3.bars[1] = [x |-> "C", y |-> Num(10), color |-> "green"]
    /\ fig3.bars[2] = [x |-> "A", y |-> Num(-10), color |-> "red"]

----------------------------------------------------------------------------
(* Properties of load_data, checked under SpecLoad                         *)

\* C17 (as the specification states it): in the price matrix load_data
\* returns no cell is zero; a cell that was zero or empty in the raw table
\* holds the nearest cell below it (an earlier date) of the same
\* instrument that is neither empty nor zero, and is missing when there
\* is none; and below a missing cell every cell of the column is missing.
C17_GapFill ==
    prices # <<>> =>
        \A r \in 1..Len(prices) : \A i \in Tickers :
            /\ prices[r][i] # Zero
            /\ stockprice[r][i] \in {NaN, Zero} =>
                  LET below == {q \in (r + 1)..Len(prices) :
                                   stockprice[q][i] \notin {NaN, Zero}}
                  IN  IF below = {} THEN IsNaN(prices[r][i])
                      ELSE prices[r][i] =
                              stockprice[CHOOSE q \in below :
                                            \A q2 \in below : q <= q2][i]
            /\ IsNaN(prices[r][i]) =>
                  \A q \in r..Len(prices) : IsNaN(prices[q][i])

\* the same property on the raw tables that have no text cell; it holds
GapFillOnNumbers ==
    (\A r \in 1..Len(stockprice) : \A i \in Tickers :
        stockprice[r][i] # Text) => C17_GapFill

----------------------------------------------------------------------------
(* Properties of the five functions together, checked under SpecCore       *)

C19_NeverRaises ==
    /\ raised = {}
    /\ (returns.called /\ DOMAIN returns.value = {}) =>
          \A k \in Range(returns.periods) : len(prices) <= k
    /\ (cumulative_returns.called /\ DOMAIN cumulative_returns.value = {}) =>
          \A k \in Range(cumulative_returns.periods) : len(prices) <= k
    /\ (specific_returns.called /\ DOMAIN specific_returns.value = {}) =>
          \A y \in {2024, 2025} :
              \/ Cardinality(OnOrAfter(y)) < 2
              \/ \A i \in Tickers : IsNaN(prices[Earliest(OnOrAfter(y))][i])
    /\ (attribution.called /\ empty(attribution.contribution)) =>
          len(prices) < 2
    /\ risk_metrics.called =>
          /\ DOMAIN risk_metrics.volatility = Tickers
          /\ DOMAIN risk_metrics.max_drawdown = Tickers
          /\ DOMAIN risk_metrics.var_95 = Tickers
          /\ DOMAIN risk_metrics.sharpe_ratio = Tickers

\* the five functions have been called on a single row with a missing
\* cell: nothing was raised, the mappings are empty and the risk values
\* are NaN
C19_Witness ==
    /\ len(prices) = 1
    /\ IsNaN(prices[1]["A"])
    /\ raised = {}
    /\ returns.called /\ DOMAIN returns.value = {}
    /\ cumulative_returns.called /\ DOMAIN cumulative_returns.value = {}
    /\ specific_returns.called /\ DOMAIN specific_returns.value = {}
    /\ attribution.called /\ empty(attribution.contribution)
    /\ risk_metrics.called /\ IsNaN(risk_metrics.max_drawdown["B"])

----------------------------------------------------------------------------
(* Properties of the trading-day loops of date_utils and updatefundsvalue, *)
(* checked under SpecLoop                                                  *)

\* Saturday or Sunday
Weekend(date) == weekday(date) \in {5, 6}

\* C24: get_previous_trading_day and get_next_trading_day (and the copy of
\* the former in updatefundsvalue) return after at most 3 one-day steps;
\* the date returned is a weekday, is not the input, lies strictly before
\* (respectively after) the input, and every date between the two is a
\* Saturday or a Sunday.
C24_LoopsTerminateNearest ==
    call.fn \in Loops =>
        /\ call.steps <= 3
        /\ call.steps = 3 => call.returned
        /\ call.returned =>
            /\ ~Weekend(call.result)
            /\ call.result # call.date
            /\ IF call.fn = "get_next_trading_day"
               THEN /\ call.result > call.date
                    /\ \A d \in (call.date + 1)..(call.result - 1) :
                            Weekend(d)
               ELSE /\ call.result < call.date
                    /\ \A d \in (call.result + 1)..(call.date - 1) :
                            Weekend(d)

\* a Monday is given and the Friday before it is returned after 3 steps;
\* a Friday is given and the Monday after it is returned after 3 steps
C24_Witness ==
    /\ call.fn \in Loops
    /\ call.returned
    /\ call.steps = 3
    /\ \/ call.fn # "get_next_trading_day" /\ weekday(call.date) = 0
       \/ call.fn = "get_next_trading_day" /\ weekday(call.date) = 4

----------------------------------------------------------------------------
(* Properties of get_latest_trading_day and calculate_dates, checked under *)
(* SpecDates                                                               *)

\* date is the nearest weekday strictly before the date before
NearestWeekdayBefore(date, before) ==
    /\ date < before
    /\ ~Weekend(date)
    /\ \A d \in (date + 1)..(before - 1) : Weekend(d)

\* the 16:00 close of date has passed at instant t
ClosePassed(date, t) ==
    \/ date < DateOf(t)
    \/ date = DateOf(t) /\ TimeOf(t) > MarketClose

\* C21: get_latest_trading_day evaluated at one clock instant returns today
\* when today is a weekday and the time is after 16:00, and otherwise the
\* nearest weekday strictly before today; the result is a weekday, is not
\* later than today and is the most recent weekday whose 16:00 close has
\* passed.
C21_LatestTradingDay ==
    (/\ call.fn = "get_latest_trading_day"
     /\ call.read[1] = call.read[2]) =>
        LET t == call.read[1]
            today == DateOf(t)
            n == call.result
        IN  /\ IF ~Weekend(today) /\ TimeOf(t) > MarketClose
               THEN n = today
               ELSE NearestWeekdayBefore(n, today)
            /\ ~Weekend(n)
            /\ n <= today
            /\ ClosePassed(n, t)
            /\ \A d \in (n + 1)..today : Weekend(d) \/ ~ClosePassed(d, t)

\* the function is evaluated at 16:00 sharp on a Monday and returns the
\* Friday before
C21_Witness ==
    /\ call.fn = "get_latest_trading_day"
    /\ call.read[1] = call.read[2]
    /\ weekday(DateOf(call.read[1])) = 0
    /\ TimeOf(call.read[1]) = MarketClose
    /\ call.result = DateOf(call.read[1]) - 3

\* the date a text written by strftime stands for
DateIn(text) == text.date

\* the first day of the month of date: no month starts after it up to date
MonthOf(date) ==
    CHOOSE m \in MonthStarts :
        m <= date /\ ~\E k \in MonthStarts : m < k /\ k <= date

\* C23: calculate_dates, for every target date and every market-closed
\* status: n is a weekday not later than the target date; n-1 is the
\* nearest weekday strictly before n; the week's first trading day is the
\* Monday of n's week and is <= n; the month's first trading day is the
\* first weekday of n's calendar month and is <= n.
C23_FourDates ==
    call.fn = "calculate_dates" =>
        LET target == IF call.target_date = None THEN DateOf(call.read[1])
                      ELSE DateIn(call.target_date)
            n == DateIn(call.result.n)
            week_first == DateIn(call.result.week_first)
            month_first == DateIn(call.result.month_first)
        IN  /\ ~Weekend(n)
            /\ n <= target
            /\ NearestWeekdayBefore(DateIn(call.result.n_minus_1), n)
            /\ weekday(week_first) = 0
            /\ week_first <= n
            /\ n - week_first < 7
            /\ ~Weekend(month_first)
            /\ MonthOf(n) <= month_first
            /\ \A d \in MonthOf(n)..(month_first - 1) : Weekend(d)
            /\ month_first <= n

\* the target is a Wednesday before the close in a month that starts on a
\* Sunday: n is the Tuesday, the week starts on the Monday and the month on
\* its second day
C23_Witness ==
    /\ call.fn = "calculate_dates"
    /\ call.target_date # None
    /\ weekday(DateIn(call.target_date)) = 2
    /\ DateIn(call.result.n) = DateIn(call.target_date) - 1
    /\ DateIn(call.result.week_first) = DateIn(call.target_date) - 2
    /\ Weekend(MonthOf(DateIn(call.result.n)))
    /\ DateIn(call.result.month_first) = MonthOf(DateIn(call.result.n)) + 1

----------------------------------------------------------------------------
(* Properties of data_update.main and its tasks, checked under SpecUpdate  *)

\* C22: within one run of main the reference trading day n computed by the
\* tasks (calculate_dates, calculate_n_and_n_minus_1 and the two calls of
\* get_latest_trading_day) is one and the same date, whatever time passes
\* between the tasks.
C22_SameReferenceDay ==
    \A j \in 1..Len(run.n) : \A k \in 1..Len(run.n) :
        run.n[j][2] = run.n[k][2]

\* the dates of the rows of a table, in the order of the rows
RowDates(table) == [r \in 1..Len(table.rows) |-> DateIn(table.rows[r])]

\* C25: a price table written by generate_funds_value_data or
\* generate_stock_price_data has exactly one row per weekday from
\* 2024-12-20 to the day get_latest_trading_day() returned to the task,
\* both included; the dates are strictly decreasing, so they are unique,
\* the first row is that latest trading day and the last is 2024-12-20.
C25_PriceTableRows ==
    \A k \in 1..Len(run.tables) :
        LET table == run.tables[k]
            rows == RowDates(table)
        IN  /\ \E j \in 1..Len(run.n) : run.n[j] = <<table.file, table.end_date>>
            /\ Len(rows) >= 1
            /\ rows[1] = table.end_date
            /\ rows[Len(rows)] = StartDate
            /\ \A r \in 1..(Len(rows) - 1) : rows[r] > rows[r + 1]
            /\ {rows[r] : r \in 1..Len(rows)} =
                    {d \in StartDate..table.end_date : ~Weekend(d)}

\* both tables are written and the stock table spans a weekend: its rows
\* are the Monday, then the Friday 2024-12-20
C25_Witness ==
    /\ Len(run.tables) = 2
    /\ run.tables[2].file = Tasks[4]
    /\ RowDates(run.tables[2]) = <<StartDate + 3, StartDate>>

\* main has ended: the summary is printed or an exception has ended it
MainEnded == run.pc = 6 \/ run.raised

\* C26: main attempts each of the four tasks exactly once, in the order
\* monitoring data, shares data, fund prices, stock prices, whether or not
\* an earlier task failed; the success count it reports is the number of
\* tasks that succeeded and the all-succeeded message is printed only when
\* all four did.
C26_FourTasksThenSummary ==
    /\ \A k \in 1..Len(run.results) : run.results[k][1] = Tasks[k]
    /\ MainEnded =>
        /\ Len(run.results) = Len(Tasks)
        /\ run.summary # <<>>
        /\ run.summary.success_count =
                Cardinality({k \in 1..Len(Tasks) : run.results[k][2]})
        /\ run.summary.all_succeeded =>
                \A k \in 1..Len(Tasks) : run.results[k][2]

\* the position of an entry in the log of update_shares_data, 0 when it is
\* not in it
LogPosition(entry) ==
    IF \E k \in 1..Len(run.log) : run.log[k] = entry
    THEN CHOOSE k \in 1..Len(run.log) : run.log[k] = entry
    ELSE 0

\* C27: update_shares_data: when the holdings CSV of date n is not on the
\* disk and the download fails, no file is left at the save path,
\* update_shares_sheet_with_holdings_data is not invoked,
\* Shares_complete.xlsx is not written and the task returns failure; when
\* the CSV is on the disk, no download is attempted and the ticker mapping
\* is applied before the sheet update.
C27_SharesDownload ==
    (run.pc >= 3 /\ ~run.raised) =>
        LET n == (CHOOSE entry \in {run.n[k] : k \in 1..Len(run.n)} :
                        entry[1] = Tasks[2])[2]
        IN  /\ run.log = <<"try_download">> =>
                /\ ~exists(n, disk)
                /\ ~disk.shares_complete
                /\ run.results[2] = <<Tasks[2], FALSE>>
            /\ LogPosition("try_download") = 0 =>
                /\ LogPosition("replace_tickers_in_holdings_file") = 1
                /\ LogPosition("update_shares_sheet_with_holdings_data") = 2

----------------------------------------------------------------------------
(* Properties of the rows calculate_risk_metrics works on, checked under   *)
(* SpecRiskCells                                                           *)

\* C28: on prices without a missing value and with at least 2 rows, the
\* running peak starts at the growth factor after the first daily return:
\* the max drawdown of an instrument is the minimum, over the pairs of rows
\* s <= t other than the first row, of (p[t] - p[s]) / p[s], so the first
\* row's price is never a peak and a decline from the first row to the
\* second alone gives a max drawdown of 0.
C28_PeakAfterFirstReturn ==
    (risk_metrics.called /\ len(prices) >= 2 /\ AllPriced) =>
        \A i \in Tickers :
            LET md == risk_metrics.max_drawdown[i]
                p(r) == prices[r][i][1]
            IN  /\ IsFinite(md)
                /\ \A t \in 2..Len(prices) : \A s \in 2..t :
                        md[1] * p(s) <= md[2] * (p(t) - p(s))
                /\ \E t \in 2..Len(prices) : \E s \in 2..t :
                        md[1] * p(s) = md[2] * (p(t) - p(s))
                /\ len(prices) = 2 => md = Zero

\* A falls from 2 in the first row to 1 and stays: no drawdown; B keeps 2
\* and falls to 1 in the third row: drawdown -1/2
C28_Witness ==
    /\ risk_metrics.called
    /\ len(prices) = 3
    /\ AllPriced
    /\ Column(prices, "A") = <<Num(2), Num(1), Num(1)>>
    /\ Column(prices, "B") = <<Num(2), Num(2), Num(1)>>
    /\ risk_metrics.max_drawdown["A"] = Zero
    /\ risk_metrics.max_drawdown["B"] = <<-1, 2>>

\* the price of i pct_change works with in row r: the last price at or
\* above the row when missing prices are padded, else the cell itself
PriceUsed(r, i) ==
    IF ~pct_pads \/ r = 0 THEN (IF r = 0 THEN NaN ELSE prices[r][i])
    ELSE LET known == {q \in 1..r : notna(prices[q][i])}
         IN  IF known = {} THEN NaN
             ELSE prices[CHOOSE q \in known : \A k \in known : k <= q][i]

\* the rows in which every instrument has a defined daily return, in order
CommonRows ==
    SelectSeq([r \in 1..Len(prices) |-> r],
              LAMBDA r : \A i \in Tickers :
                            /\ notna(PriceUsed(r, i))
                            /\ notna(PriceUsed(r - 1, i)))

\* the daily returns of i in the common rows
CommonReturns(i) ==
    [k \in 1..Len(CommonRows) |->
        Sub(Div(PriceUsed(CommonRows[k], i), PriceUsed(CommonRows[k] - 1, i)),
            One)]

\* C29: the four statistics of every instrument are computed over one
\* common set of rows, the rows in which every instrument has a defined
\* daily return: a row with a missing return of one instrument is dropped
\* for all of them, and when the prices of one instrument are all missing
\* every statistic of every instrument is NaN.
C29_CommonRows ==
    risk_metrics.called =>
        /\ \A i \in Tickers :
            /\ risk_metrics.volatility[i] =
                    SurdScale(std(CommonReturns(i)), Num(252))
            /\ risk_metrics.max_drawdown[i] = max_drawdown(CommonReturns(i))
            /\ risk_metrics.var_95[i] = quantile(CommonReturns(i), 1, 20)
            /\ risk_metrics.sharpe_ratio[i] = sharpe_ratio(CommonReturns(i))
        /\ (\E j \in Tickers : \A r \in 1..Len(prices) : IsNaN(prices[r][j]))
            => \A i \in Tickers :
                /\ IsNaN(SurdUnit(risk_metrics.volatility[i]))
                /\ IsNaN(risk_metrics.max_drawdown[i])
                /\ IsNaN(risk_metrics.var_95[i])
                /\ IsNaN(SurdUnit(risk_metrics.sharpe_ratio[i]))

\* B has a price in all three rows and falls in the second, A has none in
\* the first: the second row is dropped for B too and B's statistics come
\* from the third row alone
C29_Witness ==
    /\ risk_metrics.called
    /\ Column(prices, "A") = <<NaN, Num(1), Num(1)>>
    /\ Column(prices, "B") = <<Num(2), Num(1), Num(1)>>
    /\ CommonRows = <<3>>
    /\ risk_metrics.var_95["B"] = Zero
    /\ risk_metrics.max_drawdown["B"] = Zero

----------------------------------------------------------------------------
(* Properties of the shares column and the weights: SpecWeights            *)

\* the shares figure of the holdings table
SharesFigure ==
    IF Len(shares.cols) > 1 THEN shares.cols[2] ELSE shares.cols[1]

\* the weights that the shares figure gives
WeightsOfFigure ==
    LET value == SeriesMul(prices[2], SharesFigure)
    IN  SeriesMulScalar(SeriesDivScalar(value, SeriesSum(value)), Num(100))

\* the weight tables that are on the page
WeightTables ==
    {w \in {weights.returns_table, weights.contribution_table} :
        DOMAIN w # {}}

\* every instrument has its two latest prices and a number of shares, and
\* nothing else is held
FullCoverage ==
    /\ len(prices) >= 2
    /\ shares.index = Tickers
    /\ \A i \in Tickers :
          /\ notna(prices[1][i])
          /\ notna(prices[2][i])
          /\ notna(SharesFigure[i])

\* C30: calculate_contribution and the two weight tables take the second
\* column of the holdings table when it has more than one column and its
\* only column otherwise; when every instrument is priced and held and the
\* total value is not zero, the weights of a table sum to 100 and the
\* contribution of an instrument is its price change times its weight,
\* divided by 100.
C30_SharesRule ==
    /\ (attribution.called /\ ~attribution.st_error) =>
          attribution.price_impact =
              SeriesMul(SeriesSub(prices[1], prices[2]), SharesFigure)
    /\ \A w \in WeightTables : w = WeightsOfFigure
    /\ (FullCoverage /\ SeriesSum(SeriesMul(prices[2], SharesFigure)) # Zero)
          => \A w \in WeightTables :
                /\ SeriesSum(w) = Num(100)
                /\ attribution.called =>
                      \A i \in Tickers :
                          attribution.contribution[i] =
                              Div(Mul(attribution.price_delta[i], w[i]),
                                  Num(100))

\* both tables are on the page, the holdings table has two columns, every
\* instrument is priced and held, the weights differ and a contribution is
\* not zero
C30_Witness ==
    /\ attribution.called
    /\ DOMAIN weights.returns_table # {}
    /\ DOMAIN weights.contribution_table # {}
    /\ Len(shares.cols) > 1
    /\ FullCoverage
    /\ weights.returns_table["A"] # weights.returns_table["B"]
    /\ \E i \in Tickers :
          /\ notna(attribution.contribution[i])
          /\ attribution.contribution[i] # Zero

====
